---- MODULE Spec2Model ----
(***************************************************************************)
(* A model of the crosstream ring buffers.                                 *)
(*                                                                         *)
(*   SeqRing  (src/src/ring.rs): a BTreeMap of storage slabs keyed by the  *)
(*            watermark at which each slab was opened, a free pool of      *)
(*            slabs, and the watermark prev_seq_no.                        *)
(*   QueryBuf (src/src/buf.rs): the reusable read-out buffer of queries.   *)
(*   Storage  (src/crosstream-ring/src/storage.rs): the slab.              *)
(*   Hadron   (src/src/hadron.rs): the single fixed-capacity ring.         *)
(*   Oracle   (src/src/oracle.rs): the reference ring of the tests.        *)
(*   Segment  (src/crosstream-ring/src/segment.rs): a container of         *)
(*            contiguous records with a trimmer, over a Vec or a mmap.     *)
(*   Record   (src/crosstream-ring/src/record.rs): the byte view of a      *)
(*            record, used by the byte-level slabs, buffers and segments.  *)
(*                                                                         *)
(* In a SeqRing and a Hadron a record is modelled by its sequence number   *)
(* (the test record Log(u64)); the byte-level components store u16s.       *)
(***************************************************************************)
EXTENDS Integers, Sequences, FiniteSets, TLC

VARIABLES
    c_initial,     \* the cursor a paging consumer started from
    c_cursor,      \* the consumer's cursor: the last sequence number it was given
    c_received,    \* every record the consumer was given, in order
    c_accepted,    \* every record the ring accepted, in order
    x_buf,         \* the Vec a caller of the experimental Hadron queries into
    x_op,          \* the last call made on the experimental Hadron
    mr,            \* a Ring over an anonymous mmap
    mr_call,       \* the last call made on it
    mr_result,     \* what that call returned: whether the record was accepted, and the records rejected
    be_storage,    \* one slab of each backend
    be_ring,       \* one SeqRing over each backend
    be_buf,        \* the QueryBuf of the caller of each of these rings
    be_result,     \* what the last call on each of these rings returned
    be_call,       \* the last call made on the slabs or on the rings
    prev_seq_no,   \* SeqRing.prev_seq_no
    free_slots,    \* SeqRing.free_slots : Vec<T>
    slots,         \* SeqRing.slots : BTreeMap<u64, T>, a function on its key set
    buf,           \* the caller's QueryBuf
    config,        \* the constructor arguments of the ring
    call,          \* the last call made on the ring: its arguments, and the
                   \* length of buf when it was made
    result,        \* what that call returned
    h_capacity,    \* Hadron.capacity
    h_next,        \* Hadron.next
    h_length,      \* Hadron.length
    h_memory,      \* Hadron.memory, in records
    h_call,        \* the last batch given to Hadron::append_from_slice
    h_appended,    \* every item ever given to the Hadron, in order
    o_capacity,    \* Oracle.capacity
    o_deque,       \* Oracle.deque
    made,          \* the last constructor call: its arguments and outcome
    r_records,     \* the records given to the byte view
    r_bytes,       \* what to_bytes / to_bytes_slice returned for them
    r_returned,    \* what from_bytes / from_bytes_slice returned for r_bytes
    st,            \* a MemStorage
    st_call,       \* the last call made on it
    qb,            \* a QueryBuf, over the bytes of its OnHeapStorage
    qb_call,       \* the last call made on it
    qb_extended,   \* the slices extended into it since the last clear
    segment,       \* a Segment
    seg_call,      \* the last call made on it
    seg_result     \* what that call returned: the records rejected, and
                   \* whether it panicked

ringVars == <<prev_seq_no, free_slots, slots>>
seqVars == <<prev_seq_no, free_slots, slots, buf, config, call, result>>
hadronVars == <<h_capacity, h_next, h_length, h_memory, h_call, h_appended,
               o_capacity, o_deque>>
recordVars == <<r_records, r_bytes, r_returned>>
storageVars == <<st, st_call>>
bufVars == <<qb, qb_call, qb_extended>>
segmentVars == <<segment, seg_call, seg_result>>
backendVars == <<be_storage, be_ring, be_buf, be_result, be_call>>
mmapRingVars == <<mr, mr_call, mr_result>>
experimentVars == <<x_buf, x_op>>
consumerVars == <<c_initial, c_cursor, c_received, c_accepted>>
unitVars == <<made, recordVars, storageVars, bufVars, segmentVars,
          backendVars,
          mmapRingVars,
          experimentVars,
          consumerVars>>
vars == <<prev_seq_no, free_slots, slots, buf, config, call, result,
          h_capacity, h_next, h_length, h_memory, h_call, h_appended,
          o_capacity, o_deque,
          made, r_records, r_bytes, r_returned, st, st_call,
          qb, qb_call, qb_extended,
          segment, seg_call, seg_result,
          be_storage, be_ring, be_buf, be_result, be_call,
          mr, mr_call, mr_result,
          x_buf, x_op,
          c_initial, c_cursor, c_received, c_accepted>>

----------------------------------------------------------------------------
(* Bounds of the model. *)

MaxSeqNo == 5
MaxBatch == 3
MaxSlotCapacity == 2
MaxSlots == 3
MaxPrevSeqNo == 1
MaxBufCapacity == 3
MaxHadronCapacity == 3
MaxItem == 2
MaxHadronBatch == 4
MaxAppended == 6
MaxRecords == 2
MaxAnySeqNo == 3
MaxSegmentCapacity == 2
MaxSegmentBatch == 3
MaxTrim == 3
MaxBackendCapacity == 2
MaxBackendSlots == 2
MaxBackendSeqNo == 4
MaxMmapRingCapacity == 3
MaxMmapRingBatch == 3
MaxVecCapacity == 3
MaxHalfBatch == 2
MaxInitialCursor == 2
MaxConsumerSeqNo == 4
MaxConsumerBatch == 2
MaxStorageCapacity == 3

----------------------------------------------------------------------------
(* Slices. *)

Min(a, b) == IF a < b THEN a ELSE b

\* A split that loses the record at the boundary.
SplitAtGap(s, mid) == <<SubSeq(s, 1, mid), SubSeq(s, mid + 2, Len(s))>>

\* slice::split_at_unchecked(mid), for mid <= len
SplitAt(s, mid) == <<SubSeq(s, 1, mid), SubSeq(s, mid + 1, Len(s))>>

IsAscending(s) == \A i \in 1..(Len(s) - 1) : s[i] < s[i + 1]

----------------------------------------------------------------------------
(* Record: the byte view of a fixed-size record.  The record type is u16,  *)
(* one of the types the round-trip tests instantiate; its bytes are those  *)
(* of its in-memory (little-endian) representation.  A call that panics    *)
(* has the value <<"Panic">>.                                              *)

\* The number of values of a byte.
ByteValues == 256

\* Record::size for u16.
RecordSize == 2

\* from_bytes that reads the most significant byte first.
FromBytesBigEndian(bytes) ==
    IF Len(bytes) # RecordSize THEN <<"Panic">>
    ELSE <<"Ok", bytes[1] * ByteValues + bytes[2]>>

\* Record::from_bytes: bytemuck::from_bytes panics on a size mismatch.
FromBytes(bytes) ==
    IF Len(bytes) # RecordSize THEN <<"Panic">>
    ELSE <<"Ok", bytes[1] + bytes[2] * ByteValues>>

\* Record::to_bytes: bytemuck::bytes_of.
ToBytes(record) ==
    <<record % ByteValues, (record \div ByteValues) % ByteValues>>

\* Record::to_bytes_slice: must_cast_slice, the records' bytes one after
\* the other.
RECURSIVE ToBytesSlice(_)
ToBytesSlice(records) ==
    IF records = <<>> THEN <<>>
    ELSE ToBytes(Head(records)) \o ToBytesSlice(Tail(records))

\* The records of a byte slice whose length is a multiple of RecordSize.
CastSlice(bytes) ==
    [i \in 1..(Len(bytes) \div RecordSize) |->
        FromBytes(SubSeq(bytes, (i - 1) * RecordSize + 1, i * RecordSize))[2]]

\* Record::from_bytes_slice: cast_slice panics when the bytes are not a
\* whole number of records.
FromBytesSlice(bytes) ==
    IF Len(bytes) % RecordSize # 0 THEN <<"Panic">>
    ELSE <<"Ok", CastSlice(bytes)>>

----------------------------------------------------------------------------
(* MemStorage: a slab over a block of bytes.  A value is [mem, length,     *)
(* capacity]; mem is indexed from 1 and holds capacity * RecordSize bytes. *)

\* OnHeapStorage::new / OffHeapStorage::new.  `fill` is what the allocated
\* bytes hold: zero for an anonymous mmap, anything for the global allocator.
MemStorageNew(capacity, fill) ==
    [mem |-> [i \in 1..(capacity * RecordSize) |-> fill],
     length |-> 0,
     capacity |-> capacity]

MemCapacity(s) == s.capacity

MemLength(s) == s.length

MemRemaining(s) == s.capacity - s.length

\* std::ptr::copy(src, dst, count) inside mem, on 0-based byte offsets: the
\* bytes are read before any is written.
PtrCopy(mem, src, dst, count) ==
    [i \in 1..Len(mem) |->
        IF dst < i /\ i <= dst + count THEN mem[i - dst + src] ELSE mem[i]]

\* std::ptr::copy_nonoverlapping of `bytes` to the 0-based offset of mem.
PtrCopyNonoverlapping(mem, offset, bytes) ==
    [i \in 1..Len(mem) |->
        IF offset < i /\ i <= offset + Len(bytes) THEN bytes[i - offset]
        ELSE mem[i]]

\* The trim that lowers the length and moves no byte.
MemTrimNoMove(s, len) == [s EXCEPT !.length = @ - len]

\* MemStorage::trim, for len <= length.
MemTrim(s, len) ==
    LET offset == len * RecordSize
        end_offset == s.length * RecordSize
    IN [s EXCEPT !.mem = PtrCopy(@, offset, 0, end_offset - offset),
                 !.length = @ - len]

\* MemStorage::extend, for Len(records) <= remaining.
MemExtend(s, records) ==
    LET offset == s.length * RecordSize
        src == ToBytesSlice(records)
    IN [s EXCEPT !.mem = PtrCopyNonoverlapping(@, offset, src),
                 !.length = @ + Len(records)]

\* The clear that leaves the length as it is.
MemClearKeep(s) == s

\* MemStorage::clear.
MemClear(s) == [s EXCEPT !.length = 0]

\* MemStorage::records.
MemRecords(s) ==
    LET mid == s.length * RecordSize
        bytes == SplitAt(s.mem, mid)[1]
    IN FromBytesSlice(bytes)[2]

----------------------------------------------------------------------------
(* Storage: a slab of records with a fixed capacity, behind the trait of  *)
(* the same name.  A VecStorage is [capacity, records]; a MemStorage, on   *)
(* or off heap, is [mem, length, capacity].                                *)

\* Whether the slab is a MemStorage and not a VecStorage.
IsMem(s) == "mem" \in DOMAIN s

\* VecStorage::new.
StorageNew(capacity) == [capacity |-> capacity, records |-> <<>>]

StorageLength(s) == IF IsMem(s) THEN MemLength(s) ELSE Len(s.records)

\* The room that is one record short of what is left.
StorageRemainingShort(s) ==
    IF s.capacity - StorageLength(s) > 0
    THEN s.capacity - StorageLength(s) - 1
    ELSE 0

StorageRemaining(s) == s.capacity - StorageLength(s)

\* Storage::trim, for len <= length: drain(..len) of a VecStorage.
StorageTrim(s, len) ==
    IF IsMem(s) THEN MemTrim(s, len)
    ELSE [s EXCEPT !.records = SubSeq(@, len + 1, Len(@))]

StorageExtend(s, records) ==
    IF IsMem(s) THEN MemExtend(s, records)
    ELSE [s EXCEPT !.records = @ \o records]

\* The clear that leaves the records in the slab.
StorageClearKeep(s) == s

StorageClear(s) ==
    IF IsMem(s) THEN MemClear(s) ELSE [s EXCEPT !.records = <<>>]

StorageRecords(s) == IF IsMem(s) THEN MemRecords(s) ELSE s.records

----------------------------------------------------------------------------
(* QueryBuf: a wrapper of one on-heap Storage. *)

QueryBufNew(capacity) == StorageNew(capacity)

BufRemaining(b) == StorageRemaining(b)

BufExtend(b, records) == StorageExtend(b, records)

\* A buffer that is not cleared.
BufClearNot(b) == b

BufClear(b) == StorageClear(b)

BufRecords(b) == StorageRecords(b)

----------------------------------------------------------------------------
(* QueryBuf over the bytes of its OnHeapStorage. *)

\* QueryBuf::new, for capacity > 0; `fill` is what the allocated bytes hold.
QueryBufOnHeap(capacity, fill) == MemStorageNew(capacity, fill)

QueryBufLength(b) == MemLength(b)

QueryBufCapacity(b) == MemCapacity(b)

QueryBufRecords(b) == MemRecords(b)

QueryBufRemaining(b) == MemRemaining(b)

\* The extend that writes every slice at the start of the buffer.
QueryBufExtendAtStart(b, records) ==
    [b EXCEPT !.mem = PtrCopyNonoverlapping(@, 0, ToBytesSlice(records)),
              !.length = @ + Len(records)]

\* QueryBuf::extend, for Len(records) <= remaining.
QueryBufExtend(b, records) == MemExtend(b, records)

\* QueryBuf::clear.
QueryBufClear(b) == MemClear(b)

----------------------------------------------------------------------------
(* BTreeMap<u64, T>. *)

FirstKey(m) == CHOOSE k \in DOMAIN m : \A j \in DOMAIN m : k <= j

LastKey(m) == CHOOSE k \in DOMAIN m : \A j \in DOMAIN m : j <= k

\* BTreeMap::insert: an entry already under the key is replaced.
\* An insert under the sequence number expected next after the key.
MapInsertNextKey(m, key, value) ==
    [k \in (DOMAIN m) \cup {key + 1} |-> IF k = key + 1 THEN value ELSE m[k]]

MapInsert(m, key, value) ==
    [k \in (DOMAIN m) \cup {key} |-> IF k = key THEN value ELSE m[k]]

\* A removal that hands the entry out and leaves it in the map.
MapRemoveKeep(m, key) == m

MapRemove(m, key) == [k \in (DOMAIN m) \ {key} |-> m[k]]

\* The keys in descending order: the map walked from its last entry.
RECURSIVE KeysFromDescending(_)
KeysFromDescending(keys) ==
    IF keys = {} THEN <<>>
    ELSE LET k == CHOOSE x \in keys : \A j \in keys : j <= x
         IN <<k>> \o KeysFromDescending(keys \ {k})

\* A set of keys in ascending order (the order of BTreeMap::range).
RECURSIVE KeysFrom(_)
KeysFrom(keys) ==
    IF keys = {} THEN <<>>
    ELSE LET k == CHOOSE x \in keys : \A j \in keys : x <= j
         IN <<k>> \o KeysFrom(keys \ {k})

----------------------------------------------------------------------------
(* SeqRing.  A ring value is [prev_seq_no, free_slots, slots]. *)

\* The capacity the constructors accept.
ValidConfig(slot_capacity, nslots) == nslots > 1 /\ slot_capacity > 0

\* The construction that opens the first slab without taking it from the
\* pool.
RingNewNoPop(slot_capacity, nslots, prev) ==
    LET all == [i \in 1..nslots |-> StorageNew(slot_capacity)]
    IN [prev_seq_no |-> prev,
        free_slots |-> all,
        slots |-> MapInsert(<<>>, prev, all[Len(all)])]

\* The slabs a constructor allocates, followed by SeqRing::from_parts.
RingNew(slot_capacity, nslots, prev) ==
    LET all == [i \in 1..nslots |-> StorageNew(slot_capacity)]
        storage == all[Len(all)]
    IN [prev_seq_no |-> prev,
        free_slots |-> SubSeq(all, 1, Len(all) - 1),
        slots |-> MapInsert(<<>>, prev, storage)]

\* SeqRing::from_parts over the slabs a constructor allocated.
RingFromParts(all, prev) ==
    LET storage == all[Len(all)]
    IN [prev_seq_no |-> prev,
        free_slots |-> SubSeq(all, 1, Len(all) - 1),
        slots |-> MapInsert(<<>>, prev, storage)]

\* The ring of OnHeapSeqRing::new and of OffHeapSeqRing::new, for valid
\* arguments; `fill` is what the allocated bytes hold.
MemRingNew(slot_capacity, nslots, prev, fill) ==
    RingFromParts([i \in 1..nslots |-> MemStorageNew(slot_capacity, fill)],
                  prev)

\* The validation with a strict comparison: a record equal to the watermark
\* passes.
SequenceViolationStrict(record, prev) == record < prev

\* The sequence validation of append.
SequenceViolation(record, prev) == record <= prev

\* A slab taken from the map although the pool has one: the pool is used
\* only when the map has a single entry.
TakeSlotRecycleFirst(ring) ==
    IF Cardinality(DOMAIN ring.slots) > 1
    THEN [panic |-> FALSE,
          slot |-> ring.slots[FirstKey(ring.slots)],
          ring |-> [ring EXCEPT !.slots = MapRemove(@, FirstKey(@))]]
    ELSE IF ring.free_slots # <<>>
    THEN [panic |-> FALSE,
          slot |-> ring.free_slots[Len(ring.free_slots)],
          ring |-> [ring EXCEPT !.free_slots = SubSeq(@, 1, Len(@) - 1)]]
    ELSE [panic |-> TRUE, slot |-> StorageNew(0), ring |-> ring]

\* The take that recycles the oldest slab of the map and never uses the pool.
TakeSlotFromMap(ring) ==
    IF DOMAIN ring.slots = {}
    THEN [panic |-> TRUE, slot |-> StorageNew(0), ring |-> ring]
    ELSE [panic |-> FALSE,
          slot |-> ring.slots[FirstKey(ring.slots)],
          ring |-> [ring EXCEPT !.slots = MapRemove(@, FirstKey(@))]]

\* The slab given to the next records: the last of the free pool if there is
\* one, otherwise the slab under the smallest key, taken out of the map.
\* "Panic" stands for the expect() on an empty map.
TakeSlot(ring) ==
    IF ring.free_slots # <<>>
    THEN [panic |-> FALSE,
          slot |-> ring.free_slots[Len(ring.free_slots)],
          ring |-> [ring EXCEPT !.free_slots = SubSeq(@, 1, Len(@) - 1)]]
    ELSE IF DOMAIN ring.slots = {}
    THEN [panic |-> TRUE, slot |-> StorageNew(0), ring |-> ring]
    ELSE [panic |-> FALSE,
          slot |-> ring.slots[FirstKey(ring.slots)],
          ring |-> [ring EXCEPT !.slots = MapRemove(@, FirstKey(@))]]

\* The key of the active slab: the last entry of the map.
\* The sequence number of the first accepted record in place of the last.
AcceptedSeqNoFirst(append) == append[1]

\* The sequence number prev_seq_no takes from the records written to a slab.
AcceptedSeqNo(append) == append[Len(append)]

\* The entry of the oldest slab in place of the latest.
ActiveKeyFirst(m) == FirstKey(m)

ActiveKey(m) == LastKey(m)

\* One iteration of the while loop of append: [ring, records, panic].
AppendIteration(ring, records) ==
    IF DOMAIN ring.slots = {}
    THEN [ring |-> ring, records |-> records, panic |-> TRUE]
    ELSE
    LET key == ActiveKey(ring.slots)
        slot == ring.slots[key]
        mid == Min(StorageRemaining(slot), Len(records))
        append == SplitAt(records, mid)[1]
        next_append == SplitAt(records, mid)[2]
        written == IF append # <<>>
                   THEN [ring EXCEPT !.slots[key] = StorageExtend(slot, append),
                                     !.prev_seq_no = AcceptedSeqNo(append)]
                   ELSE ring
    IN IF next_append = <<>>
       THEN [ring |-> written, records |-> next_append, panic |-> FALSE]
       ELSE LET taken == TakeSlot(written)
            IN IF taken.panic
               THEN [ring |-> written, records |-> next_append, panic |-> TRUE]
               ELSE [ring |-> [taken.ring EXCEPT !.slots =
                                  MapInsert(@, written.prev_seq_no,
                                            StorageClear(taken.slot))],
                     records |-> next_append,
                     panic |-> FALSE]

\* A loop that returns after its first iteration, whatever is left.
AppendLoopOnce(ring, records) ==
    IF records = <<>> THEN [ring |-> ring, result |-> <<"Ok">>]
    ELSE [ring |-> AppendIteration(ring, records).ring, result |-> <<"Ok">>]

\* The while loop of append.  An iteration that consumes no record and leaves
\* the ring as it found it repeats for ever: the call does not return.
RECURSIVE AppendLoop(_, _)
AppendLoop(ring, records) ==
    IF records = <<>> THEN [ring |-> ring, result |-> <<"Ok">>]
    ELSE LET it == AppendIteration(ring, records)
         IN IF it.panic THEN [ring |-> it.ring, result |-> <<"Panic">>]
            ELSE IF it.ring = ring /\ it.records = records
            THEN [ring |-> ring, result |-> <<"Hang">>]
            ELSE AppendLoop(it.ring, it.records)

\* The ring in the middle of an iteration that opens a slab: after the new
\* slot was taken from the pool or out of the map, before it is inserted.
TakenRing(ring, records) ==
    LET key == ActiveKey(ring.slots)
        slot == ring.slots[key]
        mid == Min(StorageRemaining(slot), Len(records))
        append == SplitAt(records, mid)[1]
        written == IF append # <<>>
                   THEN [ring EXCEPT !.slots[key] = StorageExtend(slot, append),
                                     !.prev_seq_no = AcceptedSeqNo(append)]
                   ELSE ring
    IN TakeSlot(written).ring

\* The rings in the middle of the iterations of the while loop that open a
\* slab, in order.
RECURSIVE AppendTaken(_, _)
AppendTaken(ring, records) ==
    IF records = <<>> THEN <<>>
    ELSE LET it == AppendIteration(ring, records)
             here == IF it.records # <<>> /\ DOMAIN ring.slots # {}
                     THEN <<TakenRing(ring, records)>>
                     ELSE <<>>
         IN IF it.panic \/ (it.ring = ring /\ it.records = records)
            THEN here
            ELSE here \o AppendTaken(it.ring, it.records)

\* The rings in the middle of the slab openings of a call of append.
RingAppendTaken(ring, records) ==
    IF records = <<>> THEN <<>>
    ELSE IF SequenceViolation(records[1], ring.prev_seq_no) THEN <<>>
    ELSE AppendTaken(ring, records)

\* An append that opens the next slab as soon as the active one is full,
\* also for a batch with no record.
RingAppendEager(ring, records) ==
    IF records = <<>>
    THEN IF StorageRemaining(ring.slots[ActiveKey(ring.slots)]) = 0
         THEN [ring |-> [TakeSlot(ring).ring EXCEPT !.slots =
                            MapInsert(@, ring.prev_seq_no,
                                      StorageClear(TakeSlot(ring).slot))],
               result |-> <<"Ok">>]
         ELSE [ring |-> ring, result |-> <<"Ok">>]
    ELSE IF SequenceViolation(records[1], ring.prev_seq_no)
    THEN [ring |-> ring,
          result |-> <<"Sequence", ring.prev_seq_no, records[1]>>]
    ELSE AppendLoop(ring, records)

\* SeqRing::append: the new ring and the value returned.
RingAppend(ring, records) ==
    IF records = <<>> THEN [ring |-> ring, result |-> <<"Ok">>]
    ELSE IF SequenceViolation(records[1], ring.prev_seq_no)
    THEN [ring |-> ring,
          result |-> <<"Sequence", ring.prev_seq_no, records[1]>>]
    ELSE AppendLoop(ring, records)

\* The body of the copy loops of the queries, over the slabs `keys` (a
\* sequence of keys in ascending order); `first_from` is the index (0-based)
\* at which the first slab is entered.
RECURSIVE FillBuf(_, _, _, _)
FillBuf(m, keys, first_from, b) ==
    IF keys = <<>> \/ BufRemaining(b) = 0 THEN b
    ELSE LET records == SplitAt(StorageRecords(m[keys[1]]), first_from)[2]
             mid == Min(BufRemaining(b), Len(records))
             copy == SplitAt(records, mid)[1]
         IN FillBuf(m, Tail(keys), 0, BufExtend(b, copy))

\* A prefix query that reads the oldest slab only.
QueryFromTrimOneSlab(ring, b) ==
    FillBuf(ring.slots, <<FirstKey(ring.slots)>>, 0, BufClear(b))

\* SeqRing::query_from_trim: the buffer after the call.
QueryFromTrim(ring, b) ==
    FillBuf(ring.slots, KeysFrom(DOMAIN ring.slots), 0, BufClear(b))

\* slice::binary_search_by_key of the standard library, on 1-based s:
\* <<found, index>> with a 0-based index.
RECURSIVE BinarySearchLoop(_, _, _, _)
BinarySearchLoop(s, key, base, size) ==
    IF size > 1
    THEN LET half == size \div 2
             mid == base + half
         IN BinarySearchLoop(s, key, IF s[mid + 1] > key THEN base ELSE mid,
                             size - half)
    ELSE base

\* A search that finds nothing and reports the front of the slice.
BinarySearchNone(s, key) == <<FALSE, 0>>

BinarySearch(s, key) ==
    IF Len(s) = 0 THEN <<FALSE, 0>>
    ELSE LET base == BinarySearchLoop(s, key, 0, Len(s))
         IN IF s[base + 1] = key THEN <<TRUE, base>>
            ELSE <<FALSE, base + (IF s[base + 1] < key THEN 1 ELSE 0)>>

\* The start index that does not step over a record found.
StartIndexInclusive(records, seq_no) == BinarySearch(records, seq_no)[2]

\* The index in the start slab from which query_after copies.
StartIndex(records, seq_no) ==
    LET found == BinarySearch(records, seq_no)
    IN IF found[1] THEN found[2] + 1 ELSE found[2]

\* A start at the first entry of the map, whatever the sequence number.
StartKeyFirst(m, seq_no) == FirstKey(m)

\* The key of the slab in which query_after starts: the last entry of
\* range(..=seq_no), or the first entry of the map.
StartKey(m, seq_no) ==
    LET below == {k \in DOMAIN m : k <= seq_no}
    IN IF below # {}
       THEN CHOOSE k \in below : \A j \in below : j <= k
       ELSE FirstKey(m)

\* The early return of query_after.
NotYetAppended(prev, seq_no) == prev <= seq_no

\* SeqRing::query_after: the buffer after the call.
QueryAfter(ring, seq_no, b) ==
    LET cleared == BufClear(b)
    IN IF NotYetAppended(ring.prev_seq_no, seq_no) THEN cleared
       ELSE LET start_seq_no == StartKey(ring.slots, seq_no)
                keys == KeysFrom({k \in DOMAIN ring.slots : k >= start_seq_no})
                index == StartIndex(StorageRecords(ring.slots[start_seq_no]),
                                    seq_no)
            IN FillBuf(ring.slots, keys, index, cleared)

\* The calls of QueryBuf::extend made by the copy loops of the queries, in
\* the order made: the slice passed and what the buffer had remaining.
RECURSIVE FillBufExtends(_, _, _, _)
FillBufExtends(m, keys, first_from, b) ==
    IF keys = <<>> \/ BufRemaining(b) = 0 THEN <<>>
    ELSE LET records == SplitAt(StorageRecords(m[keys[1]]), first_from)[2]
             mid == Min(BufRemaining(b), Len(records))
             copy == SplitAt(records, mid)[1]
         IN <<[records |-> copy, remaining |-> BufRemaining(b)]>>
            \o FillBufExtends(m, Tail(keys), 0, BufExtend(b, copy))

\* The calls of QueryBuf::extend made by query_from_trim.
QueryFromTrimExtends(ring, b) ==
    FillBufExtends(ring.slots, KeysFrom(DOMAIN ring.slots), 0, BufClear(b))

\* The calls of QueryBuf::extend made by query_after.
QueryAfterExtends(ring, seq_no, b) ==
    IF NotYetAppended(ring.prev_seq_no, seq_no) THEN <<>>
    ELSE LET start_seq_no == StartKey(ring.slots, seq_no)
             keys == KeysFrom({k \in DOMAIN ring.slots : k >= start_seq_no})
             index == StartIndex(StorageRecords(ring.slots[start_seq_no]),
                                 seq_no)
         IN FillBufExtends(ring.slots, keys, index, BufClear(b))

\* The calls of Storage::extend made by the while loop of append: the slice
\* passed and what the slab had remaining.  The call is made only for a
\* slice with records.
RECURSIVE AppendLoopExtends(_, _)
AppendLoopExtends(ring, records) ==
    IF records = <<>> \/ DOMAIN ring.slots = {} THEN <<>>
    ELSE LET it == AppendIteration(ring, records)
             slot == ring.slots[ActiveKey(ring.slots)]
             mid == Min(StorageRemaining(slot), Len(records))
             append == SplitAt(records, mid)[1]
             here == IF append # <<>>
                     THEN <<[records |-> append,
                             remaining |-> StorageRemaining(slot)]>>
                     ELSE <<>>
         IN IF it.panic \/ (it.ring = ring /\ it.records = records)
            THEN here
            ELSE here \o AppendLoopExtends(it.ring, it.records)

\* The calls of Storage::extend made by append.
AppendExtends(ring, records) ==
    IF records = <<>> THEN <<>>
    ELSE IF SequenceViolation(records[1], ring.prev_seq_no) THEN <<>>
    ELSE AppendLoopExtends(ring, records)

----------------------------------------------------------------------------
(* Hadron.  A value is [capacity, next, length, memory]; memory is indexed *)
(* from 1 and holds one record per cell.                                   *)

\* What a cell of freshly allocated memory holds: no item of any batch.
Uninit == 0

\* Hadron::with_capacity, for capacity > 0.
HadronNew(capacity) ==
    [capacity |-> capacity, next |-> 0, length |-> 0,
     memory |-> [i \in 1..capacity |-> Uninit]]

\* The copy that starts one cell late.
CopyIntoOneLate(memory, at, src) ==
    [i \in 1..Len(memory) |->
        IF at + 1 < i /\ i <= at + 1 + Len(src) THEN src[i - at - 1]
        ELSE memory[i]]

\* copy_from_slice of `src` into memory from the 0-based cell `at`.
CopyInto(memory, at, src) ==
    [i \in 1..Len(memory) |->
        IF at < i /\ i <= at + Len(src) THEN src[i - at] ELSE memory[i]]

\* The skip that keeps the head of the batch instead of its tail.
SkipOverwrittenHead(items, capacity) ==
    IF Len(items) > capacity
    THEN SplitAt(items, capacity)[1]
    ELSE items

\* The batch after the leading items that would be overwritten are skipped.
SkipOverwritten(items, capacity) ==
    IF Len(items) > capacity
    THEN SplitAt(items, Len(items) - capacity)[2]
    ELSE items

\* The split one item later than the space left before the end.
SplitCheckedLate(items, remaining) ==
    IF remaining + 1 <= Len(items) THEN SplitAt(items, remaining + 1)
    ELSE <<items, <<>>>>

\* split_at_checked(remaining), with the fallback of append_from_slice.
SplitChecked(items, remaining) ==
    IF remaining <= Len(items) THEN SplitAt(items, remaining)
    ELSE <<items, <<>>>>

\* The two writes of append_from_slice, in cells of the memory: the write
\* of `first` into head = memory[mid..] and of `second` into
\* tail = memory[..mid], each as [start, len] with a 0-based start, and
\* whether an index of split_at_mut, head[..n] or tail[..n] is out of range,
\* at which the call panics.
AppendWrites(h, batch) ==
    LET items == SkipOverwritten(batch, h.capacity)
        remaining == h.capacity - h.next
        first == SplitChecked(items, remaining)[1]
        second == SplitChecked(items, remaining)[2]
        mid == h.next
        tail == SplitAt(h.memory, mid)[1]
        head == SplitAt(h.memory, mid)[2]
    IN [first |-> [start |-> mid, len |-> Len(first), items |-> first],
        second |-> [start |-> 0, len |-> Len(second), items |-> second],
        panic |-> \/ mid > Len(h.memory)
                  \/ Len(first) > Len(head)
                  \/ Len(second) > Len(tail)]

\* The length that grows with every item appended, full ring or not.
LengthAfterUncapped(length, n, capacity) == length + n

\* The length after n items are appended.
LengthAfter(length, n, capacity) == Min(length + n, capacity)

\* A write position that moves on by one slot more than was written.
NextAfterOneMore(next, n, capacity) == (next + n + 1) % capacity

\* The write position after n items are appended.
NextAfter(next, n, capacity) == (next + n) % capacity

\* The append that makes the first copy only.
HadronAppendOneCopy(h, batch) ==
    LET items == SkipOverwritten(batch, h.capacity)
        remaining == h.capacity - h.next
        first == SplitChecked(items, remaining)[1]
    IN [capacity |-> h.capacity,
        next |-> NextAfter(h.next, Len(items), h.capacity),
        length |-> LengthAfter(h.length, Len(items), h.capacity),
        memory |-> CopyInto(h.memory, h.next, first)]

\* Hadron::append_from_slice.
HadronAppend(h, batch) ==
    LET items == SkipOverwritten(batch, h.capacity)
        remaining == h.capacity - h.next
        first == SplitChecked(items, remaining)[1]
        second == SplitChecked(items, remaining)[2]
    IN [capacity |-> h.capacity,
        next |-> NextAfter(h.next, Len(items), h.capacity),
        length |-> LengthAfter(h.length, Len(items), h.capacity),
        memory |-> CopyInto(CopyInto(h.memory, h.next, first), 0, second)]

\* The two slices of a full ring in the order of the memory, not of the
\* records.
AsSlicesMemoryOrder(h) ==
    IF h.length < h.capacity
    THEN <<SubSeq(h.memory, 1, h.length), <<>>>>
    ELSE <<SplitAt(h.memory, h.next)[1], SplitAt(h.memory, h.next)[2]>>

\* Hadron::as_slices: <<head, tail>>.
AsSlices(h) ==
    IF h.length < h.capacity
    THEN <<SubSeq(h.memory, 1, h.length), <<>>>>
    ELSE <<SplitAt(h.memory, h.next)[2], SplitAt(h.memory, h.next)[1]>>

\* ItemIterator::next, run to the end: `index` is <<"Head", i>> or
\* <<"Tail", i>>, and the value is the sequence of items yielded.
RECURSIVE IterFrom(_, _, _)
IterFrom(head, tail, index) ==
    IF index[1] = "Tail" /\ index[2] = Len(tail) THEN <<>>
    ELSE IF index[1] = "Head" /\ index[2] = Len(head) /\ tail = <<>> THEN <<>>
    ELSE IF index[1] = "Tail"
    THEN <<tail[index[2] + 1]>> \o IterFrom(head, tail, <<"Tail", index[2] + 1>>)
    ELSE IF index[2] = Len(head)
    THEN <<tail[1]>> \o IterFrom(head, tail, <<"Tail", 1>>)
    ELSE <<head[index[2] + 1]>> \o IterFrom(head, tail, <<"Head", index[2] + 1>>)

\* The iterator that stops at the end of the head.
HadronIterHeadOnly(h) == AsSlices(h)[1]

\* Hadron::iter, collected.
HadronIter(h) == IterFrom(AsSlices(h)[1], AsSlices(h)[2], <<"Head", 0>>)

----------------------------------------------------------------------------
(* Oracle: the reference ring, a bounded VecDeque.  A value is [capacity,  *)
(* deque].                                                                 *)

\* Oracle::with_capacity, for capacity > 0.
OracleNew(capacity) == [capacity |-> capacity, deque |-> <<>>]

\* VecDeque::drain(..n), dropped.
Drain(deque, n) == SubSeq(deque, n + 1, Len(deque))

\* Oracle::copy_from_slice.
OracleCopyFromSlice(o, batch) ==
    LET items == IF Len(batch) > o.capacity
                 THEN SplitAt(batch, Len(batch) - o.capacity)[2]
                 ELSE batch
        remaining == o.capacity - Len(o.deque)
        deque == IF Len(items) > remaining
                 THEN Drain(o.deque, Len(items) - remaining)
                 ELSE o.deque
    IN [o EXCEPT !.deque = deque \o items]

\* Oracle::iter, collected.
OracleIter(o) == o.deque

----------------------------------------------------------------------------
(* The experimental Hadron (src/src/experiment/hadron.rs): the same ring   *)
(* with a query into a Vec, a value [capacity, records] whose capacity is  *)
(* never exceeded, and the per-item reference ring of its tests.           *)

\* Vec::with_capacity.
VecWithCapacity(capacity) == [capacity |-> capacity, records |-> <<>>]

\* Hadron::item_slices: <<head, tail>>.
ItemSlices(h) ==
    IF h.length < h.capacity
    THEN <<SubSeq(h.memory, 1, h.length), <<>>>>
    ELSE <<SplitAt(h.memory, h.next)[2], SplitAt(h.memory, h.next)[1]>>

\* The query that copies the tail before the head.
HadronQueryTailFirst(h, b) ==
    LET head == ItemSlices(h)[1]
        tail == ItemSlices(h)[2]
        len == Min(Len(tail), b.capacity)
        remaining == b.capacity - len
    IN [b EXCEPT !.records = SubSeq(tail, 1, len)
                    \o SubSeq(head, 1, Min(Len(head), remaining))]

\* Hadron::query_from_trim: the Vec after the call.
HadronQueryFromTrim(h, b) ==
    LET cleared == [b EXCEPT !.records = <<>>]
        head == ItemSlices(h)[1]
        tail == ItemSlices(h)[2]
        len == Min(Len(head), cleared.capacity)
        first == [cleared EXCEPT !.records = @ \o SubSeq(head, 1, len)]
        remaining == first.capacity - len
    IN [first EXCEPT !.records =
            @ \o SubSeq(tail, 1, Min(Len(tail), remaining))]

\* RefHadron::new.
RefHadronNew(capacity) == [capacity |-> capacity, deque |-> <<>>]

\* RefHadron::append_from_slice: item by item, the oldest item popped
\* when the deque is full.
RECURSIVE RefHadronAppend(_, _)
RefHadronAppend(r, items) ==
    IF items = <<>> THEN r
    ELSE LET popped == IF Len(r.deque) = r.capacity
                       THEN Tail(r.deque)
                       ELSE r.deque
         IN RefHadronAppend([r EXCEPT !.deque = Append(popped, items[1])],
                            Tail(items))

\* The loop of RefHadron::query_from_trim over the items left of the deque.
RECURSIVE RefCollect(_, _)
RefCollect(deque, b) ==
    IF deque = <<>> \/ Len(b.records) = b.capacity THEN b
    ELSE RefCollect(Tail(deque), [b EXCEPT !.records = Append(@, deque[1])])

\* RefHadron::query_from_trim: the Vec after the call.
RefHadronQueryFromTrim(r, b) ==
    RefCollect(r.deque, [b EXCEPT !.records = <<>>])

----------------------------------------------------------------------------
(* Segment (crosstream-ring): a container of contiguous records over a     *)
(* storage engine.  A value is [length, capacity, storage, trimmer]; the   *)
(* storage is [kind |-> "Vec", vec] or [kind |-> "Mmap", mmap], the mmap   *)
(* indexed from 1 and holding capacity * RecordSize bytes; the trimmer is  *)
(* <<"Nothing">> or <<"Trim", len>>.                                       *)

\* VecSegment::with_capacity.
VecSegmentWithCapacity(capacity, trimmer) ==
    [length |-> 0, capacity |-> capacity, trimmer |-> trimmer,
     storage |-> [kind |-> "Vec", vec |-> <<>>]]

\* MmapSegment::with_capacity: an anonymous map is zero-filled.
MmapSegmentWithCapacity(capacity, trimmer) ==
    [length |-> 0, capacity |-> capacity, trimmer |-> trimmer,
     storage |-> [kind |-> "Mmap",
                  mmap |-> [i \in 1..(capacity * RecordSize) |-> 0]]]

\* Storage::trim of VecStorage and of MmapStorage.
SegStorageTrim(storage, len) ==
    IF storage.kind = "Vec"
    THEN [storage EXCEPT !.vec = Drain(@, Min(len, Len(@)))]
    ELSE [storage EXCEPT !.mmap =
            PtrCopy(@, len * RecordSize, 0, Len(@) - len * RecordSize)]

\* Whether the range mmap[offset..(offset + n)] of MmapStorage::extend is
\* out of bounds, at which the indexing panics.
SegStorageExtendPanics(storage, len, records) ==
    /\ storage.kind = "Mmap"
    /\ len * RecordSize + Len(ToBytesSlice(records)) > Len(storage.mmap)

\* Storage::extend of VecStorage and of MmapStorage.
SegStorageExtend(storage, len, records) ==
    IF storage.kind = "Vec"
    THEN [storage EXCEPT !.vec = @ \o records]
    ELSE [storage EXCEPT !.mmap =
            PtrCopyNonoverlapping(@, len * RecordSize, ToBytesSlice(records))]

\* Storage::clear of VecStorage and of MmapStorage.
SegStorageClear(storage) ==
    IF storage.kind = "Vec" THEN [storage EXCEPT !.vec = <<>>]
    ELSE storage

\* Storage::records of VecStorage and of MmapStorage.
SegStorageRecords(storage, len) ==
    IF storage.kind = "Vec" THEN storage.vec
    ELSE FromBytesSlice(SubSeq(storage.mmap, 1, len * RecordSize))[2]

SegmentLen(seg) == seg.length

SegmentCapacity(seg) == seg.capacity

SegmentRemaining(seg) == seg.capacity - seg.length

SegmentIsFull(seg) == seg.capacity = seg.length

\* Segment::clear.
SegmentClear(seg) ==
    [seg EXCEPT !.storage = SegStorageClear(@), !.length = 0]

\* Segment::trim.
SegmentTrim(seg, len) ==
    IF len = 0 THEN seg
    ELSE IF len >= seg.length THEN SegmentClear(seg)
    ELSE [seg EXCEPT !.storage = SegStorageTrim(@, len), !.length = @ - len]

\* A trimmer that never trims.
RunTrimmerNever(seg) == seg

\* Segment::run_trimmer.
RunTrimmer(seg) ==
    LET trim_len == IF seg.trimmer[1] = "Nothing" THEN 0 ELSE seg.trimmer[2]
    IN IF trim_len > 0 THEN SegmentTrim(seg, trim_len) ELSE seg

\* Segment::push: [seg, rejected, panic], `rejected` being <<>> for None
\* and <<record>> for Some(record).
SegmentPush(seg, record) ==
    LET trimmed == IF SegmentRemaining(seg) = 0 THEN RunTrimmer(seg) ELSE seg
    IN IF SegmentRemaining(trimmed) = 0
       THEN [seg |-> trimmed, rejected |-> <<record>>, panic |-> FALSE]
       ELSE [seg |-> [trimmed EXCEPT
                        !.storage = SegStorageExtend(@, trimmed.length,
                                                     <<record>>),
                        !.length = @ + 1],
             rejected |-> <<>>,
             panic |-> SegStorageExtendPanics(trimmed.storage, trimmed.length,
                                              <<record>>)]

\* An extend_from_slice that takes the whole slice or nothing of it.
SegmentExtendAllOrNothing(seg, records) ==
    IF SegmentRemaining(seg) < Len(records)
    THEN [seg |-> seg, rejected |-> records, panic |-> FALSE]
    ELSE [seg |-> [seg EXCEPT
                     !.storage = SegStorageExtend(@, seg.length, records),
                     !.length = @ + Len(records)],
          rejected |-> <<>>,
          panic |-> FALSE]

\* Segment::extend_from_slice: [seg, rejected, panic].
SegmentExtendFromSlice(seg, records) ==
    LET trimmed == IF SegmentRemaining(seg) < Len(records)
                   THEN RunTrimmer(seg) ELSE seg
        index == Min(Len(records), SegmentRemaining(trimmed))
        to_append == SplitAt(records, index)[1]
        to_reject == SplitAt(records, index)[2]
    IN IF to_append = <<>>
       THEN [seg |-> trimmed, rejected |-> to_reject, panic |-> FALSE]
       ELSE [seg |-> [trimmed EXCEPT
                        !.storage = SegStorageExtend(@, trimmed.length,
                                                     to_append),
                        !.length = @ + Len(to_append)],
             rejected |-> to_reject,
             panic |-> SegStorageExtendPanics(trimmed.storage, trimmed.length,
                                              to_append)]

\* Segment::records.
SegmentRecords(seg) == SegStorageRecords(seg.storage, seg.length)

----------------------------------------------------------------------------
(* Ring of crosstream-ring: a bounded vector of records over an anonymous  *)
(* mmap.  A value is [len, cap, memory]; memory is indexed from 1 and      *)
(* holds cap * RecordSize bytes.                                           *)

\* Ring::with_capacity: the bytes of an anonymous mmap are zero.
MmapRingWithCapacity(capacity) ==
    [len |-> 0, cap |-> capacity,
     memory |-> [i \in 1..(capacity * RecordSize) |-> 0]]

MmapRingRemaining(r) == r.cap - r.len

MmapRingIsFull(r) == r.cap = r.len

\* Ring::clear.
MmapRingClear(r) == [r EXCEPT !.len = 0]

\* The trim that lowers the length and shifts no byte.
MmapRingTrimNoShift(r, len) ==
    IF len = 0 THEN r
    ELSE IF len >= r.len THEN MmapRingClear(r)
    ELSE [r EXCEPT !.len = @ - len]

\* Ring::trim: copy_within((len * size).., 0) moves every byte from the
\* offset to the end of the memory.
MmapRingTrim(r, len) ==
    IF len = 0 THEN r
    ELSE IF len >= r.len THEN MmapRingClear(r)
    ELSE [r EXCEPT !.memory = PtrCopy(@, len * RecordSize, 0,
                                      Len(@) - len * RecordSize),
                   !.len = @ - len]

\* Ring::push: [ring, accepted].
MmapRingPush(r, record) ==
    IF MmapRingRemaining(r) = 0 THEN [ring |-> r, accepted |-> FALSE]
    ELSE [ring |-> [r EXCEPT !.memory =
                        PtrCopyNonoverlapping(@, r.len * RecordSize,
                                              ToBytes(record)),
                             !.len = @ + 1],
          accepted |-> TRUE]

\* Ring::extend_from_slice: [ring, rejected].
MmapRingExtendFromSlice(r, records) ==
    LET index == Min(Len(records), MmapRingRemaining(r))
        to_append == SplitAt(records, index)[1]
        to_reject == SplitAt(records, index)[2]
    IN IF to_append = <<>> THEN [ring |-> r, rejected |-> to_reject]
       ELSE [ring |-> [r EXCEPT !.memory =
                          PtrCopyNonoverlapping(@, r.len * RecordSize,
                                                ToBytesSlice(to_append)),
                               !.len = @ + Len(to_append)],
             rejected |-> to_reject]

\* Deref for Ring: the records of the first len * size bytes.
MmapRingRecords(r) ==
    FromBytesSlice(SubSeq(r.memory, 1, r.len * RecordSize))[2]

----------------------------------------------------------------------------
(* Constructors.  The value of a constructor call is <<"Panic">> when an   *)
(* assert! of the constructor fails, and <<"Ok", instance>> otherwise.     *)

\* VecSeqRing::new.
VecSeqRingNew(slot_capacity, nslots, prev) ==
    IF ~(nslots > 1) THEN <<"Panic">>
    ELSE IF ~(slot_capacity > 0) THEN <<"Panic">>
    ELSE <<"Ok", RingNew(slot_capacity, nslots, prev)>>

\* OnHeapSeqRing::new.
OnHeapSeqRingNew(slot_capacity, nslots, prev) ==
    IF ~(nslots > 1) THEN <<"Panic">>
    ELSE IF ~(slot_capacity > 0) THEN <<"Panic">>
    ELSE <<"Ok", RingNew(slot_capacity, nslots, prev)>>

\* OffHeapSeqRing::new.
OffHeapSeqRingNew(slot_capacity, nslots, prev) ==
    IF ~(nslots > 1) THEN <<"Panic">>
    ELSE IF ~(slot_capacity > 0) THEN <<"Panic">>
    ELSE <<"Ok", RingNew(slot_capacity, nslots, prev)>>

\* An assert that accepts every capacity.
CapacityAssertNone(capacity) == TRUE

\* assert!(capacity > 0) of QueryBuf::new and of Hadron::with_capacity.
CapacityAssert(capacity) == capacity > 0

\* QueryBuf::new.
QueryBufWithCapacity(capacity) ==
    IF ~CapacityAssert(capacity) THEN <<"Panic">>
    ELSE <<"Ok", QueryBufNew(capacity)>>

\* Hadron::with_capacity.
HadronWithCapacity(capacity) ==
    IF ~CapacityAssert(capacity) THEN <<"Panic">>
    ELSE <<"Ok", HadronNew(capacity)>>

\* No constructor has been called.
NotMade == [ctor |-> "none", args |-> <<>>, outcome |-> <<"Panic">>]

\* The components that have a state machine of their own, not in use.
\* No byte view has been taken.
NoView == [op |-> "none", value |-> <<"Panic">>]

RecordIdle ==
    /\ r_records = <<>>
    /\ r_bytes = NoView
    /\ r_returned = NoView

\* No call has been made on a slab or a buffer.
NoOp == [op |-> "new", records |-> <<>>, len |-> 0]

StorageIdle ==
    /\ st = MemStorageNew(1, 0)
    /\ st_call = NoOp

BufIdle ==
    /\ qb = QueryBufOnHeap(1, 0)
    /\ qb_call = NoOp
    /\ qb_extended = <<>>

\* A call that rejected nothing.
NoneRejected == [rejected |-> <<>>, panic |-> FALSE]

SegmentIdle ==
    /\ segment = VecSegmentWithCapacity(1, <<"Nothing">>)
    /\ seg_call = NoOp
    /\ seg_result = NoneRejected

Backends == {"Vec", "OnHeap", "OffHeap"}

\* A slab of the backend: the bytes of an anonymous mmap are zero, those of
\* the global allocator are whatever `fill` says.
BackendStorage(kind, capacity, fill) ==
    IF kind = "Vec" THEN StorageNew(capacity)
    ELSE IF kind = "OnHeap" THEN MemStorageNew(capacity, fill)
    ELSE MemStorageNew(capacity, 0)

\* VecSeqRing::new, OnHeapSeqRing::new and OffHeapSeqRing::new, for valid
\* arguments.
BackendRing(kind, slot_capacity, nslots, prev, fill) ==
    IF kind = "Vec" THEN RingNew(slot_capacity, nslots, prev)
    ELSE IF kind = "OnHeap" THEN MemRingNew(slot_capacity, nslots, prev, fill)
    ELSE MemRingNew(slot_capacity, nslots, prev, 0)

\* No call has been made on the slabs or the rings of the backends.
NoBackendCall ==
    [unit |-> "new", op |-> "new", records |-> <<>>, len |-> 0, seq_no |-> 0]

BackendsIdle ==
    /\ be_storage = [kind \in Backends |-> BackendStorage(kind, 1, 0)]
    /\ be_ring = [kind \in Backends |-> BackendRing(kind, 1, 2, 0, 0)]
    /\ be_buf = [kind \in Backends |-> QueryBufOnHeap(1, 0)]
    /\ be_result = [kind \in Backends |-> <<"Ok">>]
    /\ be_call = NoBackendCall

\* A call on a Ring that returned nothing.
NoReturn == [accepted |-> TRUE, rejected |-> <<>>]

MmapRingIdle ==
    /\ mr = MmapRingWithCapacity(1)
    /\ mr_call = NoOp
    /\ mr_result = NoReturn

ExperimentIdle ==
    /\ x_buf = VecWithCapacity(1)
    /\ x_op = "new"

\* No consumer is paging.
ConsumerIdle ==
    /\ c_initial = 0
    /\ c_cursor = 0
    /\ c_received = <<>>
    /\ c_accepted = <<>>

UnitsIdle ==
    /\ made = NotMade
    /\ RecordIdle
    /\ StorageIdle
    /\ BufIdle
    /\ SegmentIdle
    /\ BackendsIdle
    /\ MmapRingIdle
    /\ ExperimentIdle
    /\ ConsumerIdle

----------------------------------------------------------------------------
(* The state machine of a SeqRing and its caller. *)

\* The ring held in the variables.
Ring == [prev_seq_no |-> prev_seq_no, free_slots |-> free_slots, slots |-> slots]

SeqNos == 0..MaxSeqNo

\* The batches a caller appends: records in strictly ascending order, as a
\* sequenced stream produces them.  The first record may be stale.
AscendingBatches ==
    UNION {{b \in [1..n -> SeqNos] : IsAscending(b)} : n \in 0..MaxBatch}

NoCall == [op |-> "new", records |-> <<>>, seq_no |-> 0, buf_length |-> 0]

\* A Hadron that is not in use.
HadronIdle ==
    /\ h_capacity = 1
    /\ h_next = 0
    /\ h_length = 0
    /\ h_memory = <<Uninit>>
    /\ h_call = <<>>
    /\ h_appended = <<>>
    /\ o_capacity = OracleNew(1).capacity
    /\ o_deque = OracleNew(1).deque

InitRing ==
    \E slot_capacity \in 1..MaxSlotCapacity, nslots \in 2..MaxSlots,
       prev \in 0..MaxPrevSeqNo, capacity \in 1..MaxBufCapacity :
        /\ ValidConfig(slot_capacity, nslots)
        /\ prev_seq_no = RingNew(slot_capacity, nslots, prev).prev_seq_no
        /\ free_slots = RingNew(slot_capacity, nslots, prev).free_slots
        /\ slots = RingNew(slot_capacity, nslots, prev).slots
        /\ buf = QueryBufNew(capacity)
        /\ config = [slot_capacity |-> slot_capacity, slots |-> nslots,
                     prev_seq_no |-> prev]
        /\ call = NoCall
        /\ result = <<"Ok">>

Init == InitRing /\ HadronIdle /\ UnitsIdle

\* Whether the last call returned to the caller.
Returned == result[1] \in {"Ok", "Sequence"}

AppendCall(records) ==
    /\ Returned
    /\ LET out == RingAppend(Ring, records)
       IN /\ prev_seq_no' = out.ring.prev_seq_no
          /\ free_slots' = out.ring.free_slots
          /\ slots' = out.ring.slots
          /\ result' = out.result
    /\ call' = [op |-> "append", records |-> records, seq_no |-> 0,
                buf_length |-> 0]
    /\ UNCHANGED <<buf, config>>
    /\ UNCHANGED hadronVars
    /\ UNCHANGED unitVars

QueryFromTrimCall ==
    /\ Returned
    /\ buf' = QueryFromTrim(Ring, buf)
    /\ call' = [op |-> "query_from_trim", records |-> <<>>, seq_no |-> 0,
                buf_length |-> StorageLength(buf)]
    /\ result' = <<"Ok">>
    /\ UNCHANGED <<prev_seq_no, free_slots, slots, config>>
    /\ UNCHANGED hadronVars
    /\ UNCHANGED unitVars

QueryAfterCall(seq_no) ==
    /\ Returned
    /\ buf' = QueryAfter(Ring, seq_no, buf)
    /\ call' = [op |-> "query_after", records |-> <<>>, seq_no |-> seq_no,
                buf_length |-> StorageLength(buf)]
    /\ result' = <<"Ok">>
    /\ UNCHANGED <<prev_seq_no, free_slots, slots, config>>
    /\ UNCHANGED hadronVars
    /\ UNCHANGED unitVars

Next ==
    \/ \E records \in AscendingBatches : AppendCall(records)
    \/ QueryFromTrimCall
    \/ \E seq_no \in SeqNos : QueryAfterCall(seq_no)

Spec == Init /\ [][Next]_vars

----------------------------------------------------------------------------
(* The state machine of a SeqRing whose caller appends batches in any      *)
(* order: append takes any &[R].                                           *)

AnyBatches == UNION {[1..n -> 1..MaxAnySeqNo] : n \in 0..MaxBatch}

InitAny ==
    /\ \E slot_capacity \in 1..MaxSlotCapacity, nslots \in 2..MaxSlots :
        /\ prev_seq_no = RingNew(slot_capacity, nslots, 0).prev_seq_no
        /\ free_slots = RingNew(slot_capacity, nslots, 0).free_slots
        /\ slots = RingNew(slot_capacity, nslots, 0).slots
        /\ config = [slot_capacity |-> slot_capacity, slots |-> nslots,
                     prev_seq_no |-> 0]
    /\ buf = QueryBufNew(1)
    /\ call = NoCall
    /\ result = <<"Ok">>
    /\ HadronIdle
    /\ UnitsIdle

NextAny == \E records \in AnyBatches : AppendCall(records)

SpecAny == InitAny /\ [][NextAny]_vars

----------------------------------------------------------------------------
(* The state machine of a SeqRing, its writer and a consumer that pages    *)
(* with query_after from a cursor.                                         *)

notConsumer == <<made, recordVars, storageVars, bufVars, segmentVars,
                 backendVars, mmapRingVars, experimentVars>>

\* The batches the writer appends: strictly ascending, the first record
\* possibly stale.
ConsumerBatches ==
    UNION {{b \in [1..n -> 0..MaxConsumerSeqNo] : IsAscending(b)} :
           n \in 0..MaxConsumerBatch}

InitConsumer ==
    /\ InitRing
    /\ HadronIdle
    /\ made = NotMade
    /\ RecordIdle
    /\ StorageIdle
    /\ BufIdle
    /\ SegmentIdle
    /\ BackendsIdle
    /\ MmapRingIdle
    /\ ExperimentIdle
    /\ \E initial \in 0..MaxInitialCursor :
        /\ c_initial = initial
        /\ c_cursor = initial
    /\ c_received = <<>>
    /\ c_accepted = <<>>

\* The writer appends a batch.
ConsumerAppendCall(records) ==
    /\ Returned
    /\ LET out == RingAppend(Ring, records)
       IN /\ prev_seq_no' = out.ring.prev_seq_no
          /\ free_slots' = out.ring.free_slots
          /\ slots' = out.ring.slots
          /\ result' = out.result
          /\ c_accepted' = IF out.result = <<"Ok">>
                           THEN c_accepted \o records ELSE c_accepted
    /\ call' = [op |-> "append", records |-> records, seq_no |-> 0,
                buf_length |-> 0]
    /\ UNCHANGED <<buf, config, c_initial, c_cursor, c_received>>
    /\ UNCHANGED hadronVars
    /\ UNCHANGED notConsumer

\* The consumer asks for the page after its cursor and moves the cursor to
\* the last record of the page.
ConsumerPageCall ==
    /\ Returned
    /\ LET page == BufRecords(QueryAfter(Ring, c_cursor, buf))
       IN /\ buf' = QueryAfter(Ring, c_cursor, buf)
          /\ c_received' = c_received \o page
          /\ c_cursor' = IF page = <<>> THEN c_cursor ELSE page[Len(page)]
    /\ call' = [op |-> "query_after", records |-> <<>>, seq_no |-> c_cursor,
                buf_length |-> StorageLength(buf)]
    /\ result' = <<"Ok">>
    /\ UNCHANGED <<prev_seq_no, free_slots, slots, config, c_initial,
                   c_accepted>>
    /\ UNCHANGED hadronVars
    /\ UNCHANGED notConsumer

NextConsumer ==
    \/ \E records \in ConsumerBatches : ConsumerAppendCall(records)
    \/ ConsumerPageCall

SpecConsumer == InitConsumer /\ [][NextConsumer]_vars

----------------------------------------------------------------------------
(* The state machine of a Hadron and its caller. *)

Hadron ==
    [capacity |-> h_capacity, next |-> h_next, length |-> h_length,
     memory |-> h_memory]

\* The reference ring held in the variables.
Oracle == [capacity |-> o_capacity, deque |-> o_deque]

Items == 1..MaxItem

HadronBatches == UNION {[1..n -> Items] : n \in 0..MaxHadronBatch}

\* A SeqRing that is not in use.
RingIdle ==
    /\ prev_seq_no = RingNew(1, 2, 0).prev_seq_no
    /\ free_slots = RingNew(1, 2, 0).free_slots
    /\ slots = RingNew(1, 2, 0).slots
    /\ buf = QueryBufNew(1)
    /\ config = [slot_capacity |-> 1, slots |-> 2, prev_seq_no |-> 0]
    /\ call = NoCall
    /\ result = <<"Ok">>

InitHadron ==
    /\ \E capacity \in 1..MaxHadronCapacity :
        /\ h_capacity = HadronNew(capacity).capacity
        /\ h_next = HadronNew(capacity).next
        /\ h_length = HadronNew(capacity).length
        /\ h_memory = HadronNew(capacity).memory
        /\ o_capacity = OracleNew(capacity).capacity
        /\ o_deque = OracleNew(capacity).deque
    /\ h_call = <<>>
    /\ h_appended = <<>>
    /\ RingIdle
    /\ UnitsIdle

AppendFromSlice(items) ==
    /\ Len(h_appended) + Len(items) <= MaxAppended
    /\ LET h == HadronAppend(Hadron, items)
       IN /\ h_capacity' = h.capacity
          /\ h_next' = h.next
          /\ h_length' = h.length
          /\ h_memory' = h.memory
    /\ o_deque' = OracleCopyFromSlice(Oracle, items).deque
    /\ o_capacity' = OracleCopyFromSlice(Oracle, items).capacity
    /\ h_call' = items
    /\ h_appended' = h_appended \o items
    /\ UNCHANGED seqVars
    /\ UNCHANGED unitVars

NextHadron == \E items \in HadronBatches : AppendFromSlice(items)

SpecHadron == InitHadron /\ [][NextHadron]_vars

----------------------------------------------------------------------------
(* The state machine of a caller that constructs rings and buffers. *)

\* Everything but the constructor call.
notMade == <<seqVars, hadronVars, recordVars, storageVars, bufVars,
            segmentVars,
          backendVars,
          mmapRingVars,
          experimentVars,
          consumerVars>>

InitNew == RingIdle /\ HadronIdle /\ UnitsIdle

NewVecSeqRing(slot_capacity, nslots, prev) ==
    /\ made' = [ctor |-> "VecSeqRing", args |-> <<slot_capacity, nslots, prev>>,
                outcome |-> VecSeqRingNew(slot_capacity, nslots, prev)]
    /\ UNCHANGED notMade

NewOnHeapSeqRing(slot_capacity, nslots, prev) ==
    /\ made' = [ctor |-> "OnHeapSeqRing",
                args |-> <<slot_capacity, nslots, prev>>,
                outcome |-> OnHeapSeqRingNew(slot_capacity, nslots, prev)]
    /\ UNCHANGED notMade

NewOffHeapSeqRing(slot_capacity, nslots, prev) ==
    /\ made' = [ctor |-> "OffHeapSeqRing",
                args |-> <<slot_capacity, nslots, prev>>,
                outcome |-> OffHeapSeqRingNew(slot_capacity, nslots, prev)]
    /\ UNCHANGED notMade

NewQueryBuf(capacity) ==
    /\ made' = [ctor |-> "QueryBuf", args |-> <<capacity>>,
                outcome |-> QueryBufWithCapacity(capacity)]
    /\ UNCHANGED notMade

NewHadron(capacity) ==
    /\ made' = [ctor |-> "Hadron", args |-> <<capacity>>,
                outcome |-> HadronWithCapacity(capacity)]
    /\ UNCHANGED notMade

NextNew ==
    \/ \E slot_capacity \in 0..MaxSlotCapacity, nslots \in 0..MaxSlots,
          prev \in SeqNos :
        \/ NewVecSeqRing(slot_capacity, nslots, prev)
        \/ NewOnHeapSeqRing(slot_capacity, nslots, prev)
        \/ NewOffHeapSeqRing(slot_capacity, nslots, prev)
    \/ \E capacity \in 0..MaxBufCapacity : NewQueryBuf(capacity)
    \/ \E capacity \in 0..MaxHadronCapacity : NewHadron(capacity)

SpecNew == InitNew /\ [][NextNew]_vars

----------------------------------------------------------------------------
(* The state machine of the round trip of records through their bytes. *)

\* The records the byte views are taken of: values whose two bytes differ.
SampleRecords == {0, 1, 255, 256, 258, 65535}

RecordSlices == UNION {[1..n -> SampleRecords] : n \in 0..MaxRecords}

notRecord == <<seqVars, hadronVars, made, storageVars, bufVars, segmentVars,
          backendVars,
          mmapRingVars,
          experimentVars,
          consumerVars>>

InitRecord ==
    /\ r_records \in RecordSlices
    /\ r_bytes = NoView
    /\ r_returned = NoView
    /\ made = NotMade
    /\ ConsumerIdle
    /\ ExperimentIdle
    /\ MmapRingIdle
    /\ BackendsIdle
    /\ StorageIdle
    /\ BufIdle
    /\ SegmentIdle
    /\ RingIdle
    /\ HadronIdle

\* to_bytes of a single record.
ToBytesCall ==
    /\ Len(r_records) = 1
    /\ r_bytes' = [op |-> "to_bytes", value |-> <<"Ok", ToBytes(r_records[1])>>]
    /\ r_returned' = NoView
    /\ UNCHANGED r_records
    /\ UNCHANGED notRecord

\* from_bytes of the bytes to_bytes returned.
FromBytesCall ==
    /\ r_bytes.op = "to_bytes"
    /\ r_returned' = [op |-> "from_bytes", value |-> FromBytes(r_bytes.value[2])]
    /\ UNCHANGED <<r_records, r_bytes>>
    /\ UNCHANGED notRecord

\* to_bytes_slice of the records.
ToBytesSliceCall ==
    /\ r_bytes' = [op |-> "to_bytes_slice",
                   value |-> <<"Ok", ToBytesSlice(r_records)>>]
    /\ r_returned' = NoView
    /\ UNCHANGED r_records
    /\ UNCHANGED notRecord

\* from_bytes_slice of the bytes to_bytes_slice returned.
FromBytesSliceCall ==
    /\ r_bytes.op = "to_bytes_slice"
    /\ r_returned' = [op |-> "from_bytes_slice",
                      value |-> FromBytesSlice(r_bytes.value[2])]
    /\ UNCHANGED <<r_records, r_bytes>>
    /\ UNCHANGED notRecord

NextRecord ==
    \/ ToBytesCall
    \/ FromBytesCall
    \/ ToBytesSliceCall
    \/ FromBytesSliceCall

SpecRecord == InitRecord /\ [][NextRecord]_vars

----------------------------------------------------------------------------
(* The state machine of a MemStorage and its caller. *)

\* The records stored in slabs and buffers.
StoredRecords == {1, 258}

StoredSlices == UNION {[1..n -> StoredRecords] : n \in 0..MaxRecords}

\* What freshly allocated bytes may hold.
FillBytes == {0, 255}

notStorage == <<seqVars, hadronVars, made, recordVars, bufVars, segmentVars,
          backendVars,
          mmapRingVars,
          experimentVars,
          consumerVars>>

InitStorage ==
    /\ \E capacity \in 1..MaxStorageCapacity, fill \in FillBytes :
        st = MemStorageNew(capacity, fill)
    /\ st_call = NoOp
    /\ made = NotMade
    /\ ConsumerIdle
    /\ ExperimentIdle
    /\ MmapRingIdle
    /\ BackendsIdle
    /\ RecordIdle
    /\ BufIdle
    /\ SegmentIdle
    /\ RingIdle
    /\ HadronIdle

StorageExtendCall(records) ==
    /\ Len(records) <= MemRemaining(st)
    /\ st' = MemExtend(st, records)
    /\ st_call' = [op |-> "extend", records |-> records, len |-> 0]
    /\ UNCHANGED notStorage

StorageTrimCall(len) ==
    /\ len <= MemLength(st)
    /\ st' = MemTrim(st, len)
    /\ st_call' = [op |-> "trim", records |-> <<>>, len |-> len]
    /\ UNCHANGED notStorage

StorageClearCall ==
    /\ st' = MemClear(st)
    /\ st_call' = [op |-> "clear", records |-> <<>>, len |-> 0]
    /\ UNCHANGED notStorage

NextStorage ==
    \/ \E records \in StoredSlices : StorageExtendCall(records)
    \/ \E len \in 0..MaxStorageCapacity : StorageTrimCall(len)
    \/ StorageClearCall

SpecStorage == InitStorage /\ [][NextStorage]_vars

----------------------------------------------------------------------------
(* The state machine of a QueryBuf and its caller. *)

notBuf == <<seqVars, hadronVars, made, recordVars, storageVars, segmentVars,
          backendVars,
          mmapRingVars,
          experimentVars,
          consumerVars>>

InitBuf ==
    /\ \E capacity \in 1..MaxBufCapacity, fill \in FillBytes :
        qb = QueryBufOnHeap(capacity, fill)
    /\ qb_call = NoOp
    /\ qb_extended = <<>>
    /\ made = NotMade
    /\ ConsumerIdle
    /\ ExperimentIdle
    /\ MmapRingIdle
    /\ BackendsIdle
    /\ RecordIdle
    /\ StorageIdle
    /\ SegmentIdle
    /\ RingIdle
    /\ HadronIdle

BufExtendCall(records) ==
    /\ Len(records) <= QueryBufRemaining(qb)
    /\ qb' = QueryBufExtend(qb, records)
    /\ qb_call' = [op |-> "extend", records |-> records, len |-> 0]
    /\ qb_extended' = qb_extended \o records
    /\ UNCHANGED notBuf

BufClearCall ==
    /\ qb' = QueryBufClear(qb)
    /\ qb_call' = [op |-> "clear", records |-> <<>>, len |-> 0]
    /\ qb_extended' = <<>>
    /\ UNCHANGED notBuf

NextBuf ==
    \/ \E records \in StoredSlices : BufExtendCall(records)
    \/ BufClearCall

SpecBuf == InitBuf /\ [][NextBuf]_vars

----------------------------------------------------------------------------
(* The state machine of a Segment and its caller. *)

Trimmers == {<<"Nothing">>} \cup {<<"Trim", len>> : len \in 0..MaxTrim}

SegmentSlices == UNION {[1..n -> StoredRecords] : n \in 0..MaxSegmentBatch}

notSegment == <<seqVars, hadronVars, made, recordVars, storageVars, bufVars,
          backendVars,
          mmapRingVars,
          experimentVars,
          consumerVars>>

InitSegment ==
    /\ \E capacity \in 1..MaxSegmentCapacity, trimmer \in Trimmers :
        \/ segment = VecSegmentWithCapacity(capacity, trimmer)
        \/ segment = MmapSegmentWithCapacity(capacity, trimmer)
    /\ seg_call = NoOp
    /\ seg_result = NoneRejected
    /\ made = NotMade
    /\ ConsumerIdle
    /\ ExperimentIdle
    /\ MmapRingIdle
    /\ BackendsIdle
    /\ RecordIdle
    /\ StorageIdle
    /\ BufIdle
    /\ RingIdle
    /\ HadronIdle

PushCall(record) ==
    /\ segment' = SegmentPush(segment, record).seg
    /\ seg_result' = [rejected |-> SegmentPush(segment, record).rejected,
                      panic |-> SegmentPush(segment, record).panic]
    /\ seg_call' = [op |-> "push", records |-> <<record>>, len |-> 0]
    /\ UNCHANGED notSegment

ExtendFromSliceCall(records) ==
    /\ segment' = SegmentExtendFromSlice(segment, records).seg
    /\ seg_result' =
        [rejected |-> SegmentExtendFromSlice(segment, records).rejected,
         panic |-> SegmentExtendFromSlice(segment, records).panic]
    /\ seg_call' = [op |-> "extend_from_slice", records |-> records, len |-> 0]
    /\ UNCHANGED notSegment

TrimCall(len) ==
    /\ segment' = SegmentTrim(segment, len)
    /\ seg_result' = NoneRejected
    /\ seg_call' = [op |-> "trim", records |-> <<>>, len |-> len]
    /\ UNCHANGED notSegment

ClearCall ==
    /\ segment' = SegmentClear(segment)
    /\ seg_result' = NoneRejected
    /\ seg_call' = [op |-> "clear", records |-> <<>>, len |-> 0]
    /\ UNCHANGED notSegment

NextSegment ==
    \/ \E record \in StoredRecords : PushCall(record)
    \/ \E records \in SegmentSlices : ExtendFromSliceCall(records)
    \/ \E len \in 0..MaxTrim : TrimCall(len)
    \/ ClearCall

SpecSegment == InitSegment /\ [][NextSegment]_vars

----------------------------------------------------------------------------
(* The state machine of the three backends side by side: one slab of each, *)
(* given the same calls, and one SeqRing over each, given the same calls.  *)
(* A run exercises the slabs or the rings.                                 *)

notBackends == <<seqVars, hadronVars, made, recordVars, storageVars, bufVars,
                 segmentVars,
          mmapRingVars,
          experimentVars,
          consumerVars>>

BackendSeqNos == 0..MaxBackendSeqNo

BackendBatches ==
    UNION {{b \in [1..n -> BackendSeqNos] : IsAscending(b)} : n \in 0..MaxBatch}

InitBackends ==
    /\ \E fill \in FillBytes :
        /\ \E capacity \in 1..MaxBackendCapacity :
            be_storage =
                [kind \in Backends |-> BackendStorage(kind, capacity, fill)]
        /\ \E slot_capacity \in 1..MaxBackendCapacity,
              nslots \in 2..MaxBackendSlots :
            be_ring = [kind \in Backends |->
                          BackendRing(kind, slot_capacity, nslots, 0, fill)]
        /\ \E capacity \in 1..MaxBackendCapacity :
            be_buf = [kind \in Backends |-> QueryBufOnHeap(capacity, fill)]
    /\ be_result = [kind \in Backends |-> <<"Ok">>]
    /\ be_call = NoBackendCall
    /\ made = NotMade
    /\ ConsumerIdle
    /\ ExperimentIdle
    /\ MmapRingIdle
    /\ RecordIdle
    /\ StorageIdle
    /\ BufIdle
    /\ SegmentIdle
    /\ RingIdle
    /\ HadronIdle

OnSlabs == be_call.unit \in {"new", "storage"}

OnRings ==
    /\ be_call.unit \in {"new", "ring"}
    /\ \A kind \in Backends : be_result[kind][1] \in {"Ok", "Sequence"}

BackendExtendCall(records) ==
    /\ OnSlabs
    /\ \A kind \in Backends :
          Len(records) <= StorageRemaining(be_storage[kind])
    /\ be_storage' =
          [kind \in Backends |-> StorageExtend(be_storage[kind], records)]
    /\ be_call' = [NoBackendCall EXCEPT !.unit = "storage", !.op = "extend",
                                       !.records = records]
    /\ UNCHANGED <<be_ring, be_buf, be_result>>
    /\ UNCHANGED notBackends

BackendTrimCall(len) ==
    /\ OnSlabs
    /\ \A kind \in Backends : len <= StorageLength(be_storage[kind])
    /\ be_storage' =
          [kind \in Backends |-> StorageTrim(be_storage[kind], len)]
    /\ be_call' = [NoBackendCall EXCEPT !.unit = "storage", !.op = "trim",
                                       !.len = len]
    /\ UNCHANGED <<be_ring, be_buf, be_result>>
    /\ UNCHANGED notBackends

BackendClearCall ==
    /\ OnSlabs
    /\ be_storage' = [kind \in Backends |-> StorageClear(be_storage[kind])]
    /\ be_call' = [NoBackendCall EXCEPT !.unit = "storage", !.op = "clear"]
    /\ UNCHANGED <<be_ring, be_buf, be_result>>
    /\ UNCHANGED notBackends

BackendAppendCall(records) ==
    /\ OnRings
    /\ be_ring' =
          [kind \in Backends |-> RingAppend(be_ring[kind], records).ring]
    /\ be_result' =
          [kind \in Backends |-> RingAppend(be_ring[kind], records).result]
    /\ be_call' = [NoBackendCall EXCEPT !.unit = "ring", !.op = "append",
                                       !.records = records]
    /\ UNCHANGED <<be_storage, be_buf>>
    /\ UNCHANGED notBackends

BackendQueryFromTrimCall ==
    /\ OnRings
    /\ be_buf' =
          [kind \in Backends |-> QueryFromTrim(be_ring[kind], be_buf[kind])]
    /\ be_result' = [kind \in Backends |-> <<"Ok">>]
    /\ be_call' = [NoBackendCall EXCEPT !.unit = "ring",
                                       !.op = "query_from_trim"]
    /\ UNCHANGED <<be_storage, be_ring>>
    /\ UNCHANGED notBackends

BackendQueryAfterCall(seq_no) ==
    /\ OnRings
    /\ be_buf' = [kind \in Backends |->
                     QueryAfter(be_ring[kind], seq_no, be_buf[kind])]
    /\ be_result' = [kind \in Backends |-> <<"Ok">>]
    /\ be_call' = [NoBackendCall EXCEPT !.unit = "ring", !.op = "query_after",
                                       !.seq_no = seq_no]
    /\ UNCHANGED <<be_storage, be_ring>>
    /\ UNCHANGED notBackends

NextBackends ==
    \/ \E records \in StoredSlices : BackendExtendCall(records)
    \/ \E len \in 0..MaxBackendCapacity : BackendTrimCall(len)
    \/ BackendClearCall
    \/ \E records \in BackendBatches : BackendAppendCall(records)
    \/ BackendQueryFromTrimCall
    \/ \E seq_no \in BackendSeqNos : BackendQueryAfterCall(seq_no)

SpecBackends == InitBackends /\ [][NextBackends]_vars

----------------------------------------------------------------------------
(* The state machine of a Ring over a mmap and its caller. *)

notMmapRing == <<seqVars, hadronVars, made, recordVars, storageVars, bufVars,
                 segmentVars, backendVars,
          experimentVars,
          consumerVars>>

MmapRingSlices ==
    UNION {[1..n -> StoredRecords] : n \in 0..MaxMmapRingBatch}

InitMmapRing ==
    /\ \E capacity \in 1..MaxMmapRingCapacity :
        mr = MmapRingWithCapacity(capacity)
    /\ mr_call = NoOp
    /\ mr_result = NoReturn
    /\ made = NotMade
    /\ ConsumerIdle
    /\ ExperimentIdle
    /\ RecordIdle
    /\ StorageIdle
    /\ BufIdle
    /\ SegmentIdle
    /\ BackendsIdle
    /\ RingIdle
    /\ HadronIdle

MmapRingClearCall ==
    /\ mr' = MmapRingClear(mr)
    /\ mr_call' = [op |-> "clear", records |-> <<>>, len |-> 0]
    /\ mr_result' = NoReturn
    /\ UNCHANGED notMmapRing

MmapRingTrimCall(len) ==
    /\ mr' = MmapRingTrim(mr, len)
    /\ mr_call' = [op |-> "trim", records |-> <<>>, len |-> len]
    /\ mr_result' = NoReturn
    /\ UNCHANGED notMmapRing

MmapRingPushCall(record) ==
    /\ mr' = MmapRingPush(mr, record).ring
    /\ mr_call' = [op |-> "push", records |-> <<record>>, len |-> 0]
    /\ mr_result' = [NoReturn EXCEPT
                        !.accepted = MmapRingPush(mr, record).accepted]
    /\ UNCHANGED notMmapRing

MmapRingExtendCall(records) ==
    /\ mr' = MmapRingExtendFromSlice(mr, records).ring
    /\ mr_call' = [op |-> "extend_from_slice", records |-> records, len |-> 0]
    /\ mr_result' = [NoReturn EXCEPT
                        !.rejected =
                            MmapRingExtendFromSlice(mr, records).rejected]
    /\ UNCHANGED notMmapRing

NextMmapRing ==
    \/ MmapRingClearCall
    \/ \E len \in 0..MaxTrim : MmapRingTrimCall(len)
    \/ \E record \in StoredRecords : MmapRingPushCall(record)
    \/ \E records \in MmapRingSlices : MmapRingExtendCall(records)

SpecMmapRing == InitMmapRing /\ [][NextMmapRing]_vars

----------------------------------------------------------------------------
(* The state machine of the experimental Hadron and its caller: appends    *)
(* of batches and queries into one Vec that is used again and again.       *)

InitExperiment ==
    /\ \E capacity \in 1..MaxHadronCapacity :
        /\ h_capacity = HadronNew(capacity).capacity
        /\ h_next = HadronNew(capacity).next
        /\ h_length = HadronNew(capacity).length
        /\ h_memory = HadronNew(capacity).memory
    /\ o_capacity = OracleNew(1).capacity
    /\ o_deque = OracleNew(1).deque
    /\ h_call = <<>>
    /\ h_appended = <<>>
    /\ \E capacity \in 0..MaxVecCapacity : x_buf = VecWithCapacity(capacity)
    /\ x_op = "new"
    /\ made = NotMade
    /\ ConsumerIdle
    /\ MmapRingIdle
    /\ BackendsIdle
    /\ RecordIdle
    /\ StorageIdle
    /\ BufIdle
    /\ SegmentIdle
    /\ RingIdle

ExperimentAppendCall(items) ==
    /\ Len(h_appended) + Len(items) <= MaxAppended
    /\ LET h == HadronAppend(Hadron, items)
       IN /\ h_capacity' = h.capacity
          /\ h_next' = h.next
          /\ h_length' = h.length
          /\ h_memory' = h.memory
    /\ h_call' = items
    /\ h_appended' = h_appended \o items
    /\ x_op' = "append"
    /\ UNCHANGED <<o_capacity, o_deque, x_buf>>
    /\ UNCHANGED seqVars
    /\ UNCHANGED <<made, recordVars, storageVars, bufVars, segmentVars,
                   backendVars, mmapRingVars, consumerVars>>

ExperimentQueryFromTrimCall ==
    /\ x_buf' = HadronQueryFromTrim(Hadron, x_buf)
    /\ x_op' = "query_from_trim"
    /\ UNCHANGED hadronVars
    /\ UNCHANGED seqVars
    /\ UNCHANGED <<made, recordVars, storageVars, bufVars, segmentVars,
                   backendVars, mmapRingVars, consumerVars>>

NextExperiment ==
    \/ \E items \in HadronBatches : ExperimentAppendCall(items)
    \/ ExperimentQueryFromTrimCall

SpecExperiment == InitExperiment /\ [][NextExperiment]_vars

----------------------------------------------------------------------------
(* What the claims speak of. *)

\* The live records of a slab map: the records of its slabs, concatenated
\* in ascending key order.
RECURSIVE Concat(_, _)
Concat(m, keys) ==
    IF keys = <<>> THEN <<>>
    ELSE StorageRecords(m[keys[1]]) \o Concat(m, Tail(keys))

LiveOf(m) == Concat(m, KeysFrom(DOMAIN m))

Live == LiveOf(slots)

Range(s) == {s[i] : i \in 1..Len(s)}

Prefix(s, n) == SubSeq(s, 1, Min(n, Len(s)))

Suffix(s, n) == SubSeq(s, Len(s) - Min(n, Len(s)) + 1, Len(s))

\* The records of s greater than seq_no, in the order of s.
After(s, seq_no) == SelectSeq(s, LAMBDA r : r > seq_no)

\* A slab was recycled: no free slab is left and the slab opened by the
\* constructor is gone from the map.
Recycled == free_slots = <<>> /\ config.prev_seq_no \notin DOMAIN slots

\* The records of buf come from at least two slabs.
BufSpansSlabs ==
    \E j, k \in DOMAIN slots :
        /\ j # k
        /\ Range(BufRecords(buf)) \cap Range(StorageRecords(slots[j])) # {}
        /\ Range(BufRecords(buf)) \cap Range(StorageRecords(slots[k])) # {}

----------------------------------------------------------------------------
(* C1: an append whose first record has a sequence number at or below      *)
(* prev_seq_no returns Sequence(prev_seq_no, first.seq_no) and leaves      *)
(* prev_seq_no, the slab map and the free pool as they were.               *)
C1_StaleAppendRejected ==
    [][(/\ call'.op = "append"
        /\ call'.records # <<>>
        /\ call'.records[1] <= prev_seq_no)
       => (/\ result' = <<"Sequence", prev_seq_no, call'.records[1]>>
           /\ prev_seq_no' = prev_seq_no
           /\ slots' = slots
           /\ free_slots' = free_slots)]_vars

\* A batch starting at exactly prev_seq_no was rejected by a ring that
\* holds several slabs.
C1_Witness ==
    /\ call.op = "append"
    /\ call.records # <<>>
    /\ call.records[1] = prev_seq_no
    /\ result = <<"Sequence", prev_seq_no, prev_seq_no>>
    /\ Cardinality(DOMAIN slots) > 1
    /\ Live # <<>>

(* C2: query_after(seq_no, buf) leaves in buf the first                     *)
(* min(buf.capacity, m) of the m live records with a sequence number        *)
(* strictly greater than seq_no, in ascending order.                        *)
C2_QueryAfterExact ==
    call.op = "query_after" =>
        /\ BufRecords(buf) = Prefix(After(Live, call.seq_no), buf.capacity)
        /\ IsAscending(BufRecords(buf))

\* After a slab was recycled, a query on a number below every key of the
\* map returned records of two slabs and left live records behind for want
\* of room.
C2_Witness ==
    /\ call.op = "query_after"
    /\ Recycled
    /\ call.seq_no < FirstKey(slots)
    /\ BufSpansSlabs
    /\ Len(BufRecords(buf)) = buf.capacity
    /\ Len(After(Live, call.seq_no)) > buf.capacity

(* C3: query_from_trim(buf) leaves in buf the min(buf.capacity,             *)
(* live_records) live records with the smallest sequence numbers, in        *)
(* ascending order, and fills buf when the ring holds enough records.       *)
C3_QueryFromTrimExact ==
    call.op = "query_from_trim" =>
        /\ Len(BufRecords(buf)) = Min(buf.capacity, Len(Live))
        /\ IsAscending(BufRecords(buf))
        /\ Range(BufRecords(buf)) \subseteq Range(Live)
        /\ \A r \in Range(Live) \ Range(BufRecords(buf)) :
               \A q \in Range(BufRecords(buf)) : q < r
        /\ Cardinality(Range(Live)) = Len(Live)
        /\ (Len(Live) >= buf.capacity => BufRemaining(buf) = 0)

\* After a slab was recycled, a prefix query filled buf from two slabs and
\* left live records behind.
C3_Witness ==
    /\ call.op = "query_from_trim"
    /\ Recycled
    /\ BufSpansSlabs
    /\ BufRemaining(buf) = 0
    /\ Len(Live) > buf.capacity

(* C4: after every append_from_slice, of a batch of any length, iter()      *)
(* yields the last min(total_appended, capacity) items of the concatenated  *)
(* input, in append order.                                                  *)
C4_IterYieldsNewestItems ==
    HadronIter(Hadron) = Suffix(h_appended, h_capacity)

\* A batch longer than the capacity was appended to a ring that already
\* held items and whose write index was not 0.
C4_Witness ==
    /\ Len(h_call) > h_capacity
    /\ Len(h_appended) > Len(h_call)
    /\ h_next # 0
    /\ h_length = h_capacity

(* C5: in the result of query_from_trim and of query_after every record has *)
(* a strictly greater sequence number than the record before it.            *)
C5_QueryResultsAscend ==
    call.op \in {"query_from_trim", "query_after"} =>
        \A i \in 1..(Len(BufRecords(buf)) - 1) :
            BufRecords(buf)[i + 1] > BufRecords(buf)[i]

\* After a slab was recycled, a query returned at least three records taken
\* from different slabs.
C5_Witness ==
    /\ call.op \in {"query_from_trim", "query_after"}
    /\ Recycled
    /\ Len(BufRecords(buf)) >= 3
    /\ BufSpansSlabs

C7_AsSlicesCoverLiveRecords ==
    LET head == AsSlices(Hadron)[1]
        tail == AsSlices(Hadron)[2]
    IN /\ h_length < h_capacity =>
            /\ head = [i \in 1..h_length |-> h_memory[i]]
            /\ tail = <<>>
       /\ h_length >= h_capacity =>
            /\ head = [i \in 1..(h_capacity - h_next) |-> h_memory[h_next + i]]
            /\ tail = [i \in 1..h_next |-> h_memory[i]]
            /\ head # <<>>
       /\ Len(head) + Len(tail) = h_length
       /\ head \o tail = Suffix(h_appended, h_capacity)

\* A full ring whose records wrap: both slices hold records.
C7_Witness ==
    /\ h_length = h_capacity
    /\ AsSlices(Hadron)[1] # <<>>
    /\ AsSlices(Hadron)[2] # <<>>
    /\ Len(h_appended) > h_capacity

C9_QueryClearsBuf ==
    /\ call.op = "query_from_trim" =>
        /\ buf = QueryFromTrim(Ring, QueryBufNew(buf.capacity))
        /\ Len(BufRecords(buf)) <= buf.capacity
    /\ call.op = "query_after" =>
        /\ buf = QueryAfter(Ring, call.seq_no, QueryBufNew(buf.capacity))
        /\ Len(BufRecords(buf)) <= buf.capacity
        /\ (call.seq_no >= prev_seq_no => BufRecords(buf) = <<>>)

\* A query at the watermark emptied a buf that held the records of an
\* earlier query.
C9_Witness ==
    /\ call.op = "query_after"
    /\ call.seq_no >= prev_seq_no
    /\ call.buf_length > 0
    /\ BufRecords(buf) = <<>>
    /\ Live # <<>>

(* C10: an append of an empty batch returns Ok and leaves prev_seq_no, the  *)
(* slab map and the free pool as they were, also when the active slab is    *)
(* full.                                                                    *)
C10_EmptyAppendIsNoOp ==
    [][(call'.op = "append" /\ call'.records = <<>>) =>
        /\ result' = <<"Ok">>
        /\ prev_seq_no' = prev_seq_no
        /\ slots' = slots
        /\ free_slots' = free_slots]_vars

\* An empty batch was appended to a ring whose active slab is full.
C10_Witness ==
    /\ call.op = "append"
    /\ call.records = <<>>
    /\ result = <<"Ok">>
    /\ StorageRemaining(slots[LastKey(slots)]) = 0

----------------------------------------------------------------------------
\* The constructors of a SeqRing, and the arguments they reject.
RingCtors == {"VecSeqRing", "OnHeapSeqRing", "OffHeapSeqRing"}

InvalidArgs ==
    \/ made.ctor \in RingCtors /\ (made.args[2] <= 1 \/ made.args[1] < 1)
    \/ made.ctor \in {"QueryBuf", "Hadron"} /\ made.args[1] = 0

(* C11: a constructor given an invalid configuration panics and creates no  *)
(* instance: the three SeqRing constructors with slots <= 1 or              *)
(* slot_capacity < 1, QueryBuf::new(0) and Hadron::with_capacity(0); with a *)
(* valid configuration each returns an instance.                            *)
C11_InvalidConfigPanics ==
    made.ctor # "none" =>
        IF InvalidArgs THEN made.outcome = <<"Panic">>
        ELSE made.outcome[1] = "Ok"

C11_Witness ==
    /\ made.ctor = "OffHeapSeqRing"
    /\ made.args[1] = 0
    /\ made.args[2] = 2
    /\ made.outcome = <<"Panic">>

----------------------------------------------------------------------------
\* Buffers that hold nothing or a record of an earlier query, and what a
\* fresh ring is.
FilledBufs ==
    {BufExtend(QueryBufNew(capacity), records) :
        capacity \in 1..MaxBufCapacity, records \in {<<>>, <<1>>}}

FreshRing(ring, slot_capacity, nslots, prev) ==
    /\ ring.prev_seq_no = prev
    /\ DOMAIN ring.slots = {prev}
    /\ ring.slots[prev] = StorageNew(slot_capacity)
    /\ Len(ring.free_slots) = nslots - 1
    /\ \A i \in 1..Len(ring.free_slots) :
        ring.free_slots[i] = StorageNew(slot_capacity)
    /\ \A b \in FilledBufs :
        /\ BufRecords(QueryFromTrim(ring, b)) = <<>>
        /\ \A seq_no \in SeqNos : BufRecords(QueryAfter(ring, seq_no, b)) = <<>>

(* C12: a fresh SeqRing(slot_capacity, slots, prev_seq_no) has exactly one  *)
(* slab in the map, keyed by prev_seq_no and empty, slots - 1 empty slabs   *)
(* in the free pool, prev_seq_no as given, and every query on it returns    *)
(* nothing.                                                                 *)
C12_FreshRingIsEmpty ==
    (made.ctor \in RingCtors /\ made.outcome[1] = "Ok") =>
        FreshRing(made.outcome[2], made.args[1], made.args[2], made.args[3])

C12_Witness ==
    /\ made.ctor = "VecSeqRing"
    /\ made.args = <<2, 3, 1>>
    /\ made.outcome[1] = "Ok"
    /\ Len(made.outcome[2].free_slots) = 2

----------------------------------------------------------------------------
(* C13: through any sequence of extend (within remaining) and clear, a      *)
(* QueryBuf keeps its capacity, has 0 <= length <= capacity and             *)
(* remaining = capacity - length, and records() is the concatenation of the *)
(* slices extended since the last clear; after clear, length = 0 and        *)
(* remaining = capacity.                                                    *)
C13_QueryBufInvariants ==
    /\ [](/\ 0 <= QueryBufLength(qb)
          /\ QueryBufLength(qb) <= QueryBufCapacity(qb)
          /\ QueryBufRemaining(qb) = QueryBufCapacity(qb) - QueryBufLength(qb)
          /\ QueryBufRecords(qb) = qb_extended
          /\ qb_call.op = "clear" =>
                /\ QueryBufLength(qb) = 0
                /\ QueryBufRemaining(qb) = QueryBufCapacity(qb))
    /\ [][QueryBufCapacity(qb') = QueryBufCapacity(qb)]_vars

C13_Witness ==
    /\ qb_call.op = "extend"
    /\ qb_call.records = <<258>>
    /\ QueryBufRecords(qb) = <<1, 258, 258>>
    /\ QueryBufRemaining(qb) = 0
    /\ qb.mem[1] = 1

----------------------------------------------------------------------------
(* C14: a Hadron and the reference ring of the same capacity, given the     *)
(* same batches, hold the same items in the same order after every append.  *)
C14_HadronMatchesOracle ==
    h_capacity = o_capacity /\ HadronIter(Hadron) = OracleIter(Oracle)

C14_Witness ==
    /\ h_capacity = 3
    /\ Len(h_appended) > 4
    /\ Len(h_call) = 2
    /\ h_next = 2
    /\ OracleIter(Oracle) = <<2, 1, 2>>
    /\ HadronIter(Hadron) = <<2, 1, 2>>

----------------------------------------------------------------------------
\* The cells of the memory (indexed from 1) a write covers.
Cells(write) == (write.start + 1)..(write.start + write.len)

(* C15: append_from_slice of n items, for any n including 0 and             *)
(* n > capacity, writes exactly min(n, capacity) records in at most two     *)
(* ranges, [next, next + |first|) inside [next, capacity) and               *)
(* [0, |second|) inside [0, next): the ranges are disjoint, no index is     *)
(* outside the memory, the call does not panic, and no other cell changes.  *)
C15_AppendWritesInBounds ==
    [][LET w == AppendWrites(Hadron, h_call')
           n == Len(h_call')
       IN /\ ~w.panic
          /\ w.first.len + w.second.len = Min(n, h_capacity)
          /\ w.first.items \o w.second.items = Suffix(h_call', h_capacity)
          /\ Cells(w.first) \subseteq (h_next + 1)..h_capacity
          /\ Cells(w.second) \subseteq 1..h_next
          /\ Cells(w.first) \cap Cells(w.second) = {}
          /\ \A i \in 1..h_capacity :
                h_memory'[i] =
                    IF i \in Cells(w.first)
                    THEN w.first.items[i - w.first.start]
                    ELSE IF i \in Cells(w.second)
                    THEN w.second.items[i - w.second.start]
                    ELSE h_memory[i]]_vars

C15_Witness ==
    /\ h_capacity = 3
    /\ Len(h_call) = 4
    /\ h_next = 2
    /\ h_memory = <<2, 1, 1>>
    /\ h_appended = <<2, 1>> \o h_call

----------------------------------------------------------------------------
\* The last call was an append whose first record was above prev_seq_no.
PassedValidation ==
    /\ call.op = "append"
    /\ call.records # <<>>
    /\ result[1] # "Sequence"

(* C16: every append runs to completion: for every batch that passes the    *)
(* validation of its first record against prev_seq_no, with any slots >= 2 *)
(* and slot_capacity >= 1, the loop of append consumes all the records of   *)
(* the batch and the call returns Ok.                                       *)
C16_AppendRunsToCompletion == PassedValidation => result = <<"Ok">>

----------------------------------------------------------------------------
(* C17: the byte views of records round-trip: to_bytes(r) has size() bytes  *)
(* and from_bytes of it is r; to_bytes_slice(rs) has size() * rs.len()      *)
(* bytes and from_bytes_slice of it is rs.                                  *)
C17_ByteViewsRoundTrip ==
    /\ r_bytes.op = "to_bytes" =>
        Len(r_bytes.value[2]) = RecordSize
    /\ r_returned.op = "from_bytes" =>
        r_returned.value = <<"Ok", r_records[1]>>
    /\ r_bytes.op = "to_bytes_slice" =>
        Len(r_bytes.value[2]) = RecordSize * Len(r_records)
    /\ r_returned.op = "from_bytes_slice" =>
        r_returned.value = <<"Ok", r_records>>

C17_Witness ==
    /\ r_returned.op = "from_bytes_slice"
    /\ r_records = <<258, 256>>
    /\ r_bytes.value[2] = <<2, 1, 0, 1>>
    /\ r_returned.value[2] = r_records

----------------------------------------------------------------------------
(* C18: on a slab, extend(items) with items.len() <= remaining appends the  *)
(* items after the records held and raises length by items.len(); trim(n)   *)
(* with n <= length removes the first n records, keeps the others in order  *)
(* at [0, length - n) and lowers length by n; clear sets length to 0; no    *)
(* call changes capacity, and remaining = capacity - length throughout.     *)
C18_SlabOperations ==
    [][/\ MemCapacity(st') = MemCapacity(st)
       /\ MemRemaining(st') = MemCapacity(st') - MemLength(st')
       /\ MemLength(st') <= MemCapacity(st')
       /\ st_call'.op = "extend" =>
            /\ MemRecords(st') = MemRecords(st) \o st_call'.records
            /\ MemLength(st') = MemLength(st) + Len(st_call'.records)
       /\ st_call'.op = "trim" =>
            /\ MemRecords(st') =
                 SubSeq(MemRecords(st), st_call'.len + 1, MemLength(st))
            /\ MemLength(st') = MemLength(st) - st_call'.len
       /\ st_call'.op = "clear" =>
            /\ MemLength(st') = 0
            /\ MemRecords(st') = <<>>]_vars

C18_Witness ==
    /\ st_call.op = "trim"
    /\ st_call.len = 1
    /\ MemCapacity(st) = 3
    /\ MemRecords(st) = <<258, 1>>

----------------------------------------------------------------------------
\* A sequence without its first min(n, len) entries.
DropFirst(s, n) == SubSeq(s, Min(n, Len(s)) + 1, Len(s))

(* C19: a Segment with Trimmer::Nothing never holds more than capacity      *)
(* records and drops no stored record on an append: push on a full segment  *)
(* returns Some(record) and leaves the segment as it was;                   *)
(* extend_from_slice(rs) appends rs[..min(rs.len(), remaining)] and returns *)
(* exactly the rest of rs; trim(k) removes the first min(k, len) records,   *)
(* after which that many more records can be accepted.                      *)
C19_NothingTrimmerRejectsOverflow ==
    [][LET old == SegmentRecords(segment)
           new == SegmentRecords(segment')
           records == seg_call'.records
           fits == Min(Len(records), SegmentRemaining(segment))
       IN segment.trimmer = <<"Nothing">> =>
            /\ ~seg_result'.panic
            /\ SegmentCapacity(segment') = SegmentCapacity(segment)
            /\ Len(new) = SegmentLen(segment')
            /\ Len(new) <= SegmentCapacity(segment')
            /\ seg_call'.op = "push" =>
                 IF SegmentIsFull(segment)
                 THEN seg_result'.rejected = records /\ segment' = segment
                 ELSE seg_result'.rejected = <<>> /\ new = old \o records
            /\ seg_call'.op = "extend_from_slice" =>
                 /\ new = old \o SplitAt(records, fits)[1]
                 /\ seg_result'.rejected = SplitAt(records, fits)[2]
            /\ seg_call'.op = "trim" =>
                 /\ new = DropFirst(old, seg_call'.len)
                 /\ SegmentRemaining(segment') =
                      SegmentRemaining(segment) + Min(seg_call'.len, Len(old))]_vars

C19_Witness ==
    /\ segment.trimmer = <<"Nothing">>
    /\ segment.storage.kind = "Mmap"
    /\ seg_call.op = "extend_from_slice"
    /\ seg_call.records = <<258, 1, 1>>
    /\ seg_result.rejected = <<1, 1>>
    /\ SegmentRecords(segment) = <<1, 258>>

----------------------------------------------------------------------------
(* C20: on a Segment with Trimmer::Trim(n), a push that finds remaining = 0 *)
(* and an extend_from_slice that finds remaining < the input length remove  *)
(* the first min(n, len) records once, and the append proceeds in the space *)
(* there is then; what does not fit is still rejected: a full segment of    *)
(* capacity C given C new records accepts min(C, n) of them and keeps its   *)
(* last C - min(C, n) records in front.  An append that fits trims nothing. *)
C20_TrimmerTrimsOnce ==
    [][LET old == SegmentRecords(segment)
           new == SegmentRecords(segment')
           records == seg_call'.records
           n == segment.trimmer[2]
           short == SegmentRemaining(segment) < Len(records)
           kept == IF short THEN DropFirst(old, n) ELSE old
           fits == Min(Len(records), SegmentCapacity(segment) - Len(kept))
       IN (segment.trimmer[1] = "Trim"
             /\ seg_call'.op \in {"push", "extend_from_slice"}) =>
            /\ ~seg_result'.panic
            /\ new = kept \o SplitAt(records, fits)[1]
            /\ seg_result'.rejected = SplitAt(records, fits)[2]
            /\ Len(new) = SegmentLen(segment')
            /\ Len(new) <= SegmentCapacity(segment')]_vars

C20_Witness ==
    /\ segment.trimmer = <<"Trim", 1>>
    /\ segment.storage.kind = "Mmap"
    /\ SegmentCapacity(segment) = 2
    /\ seg_call.op = "extend_from_slice"
    /\ seg_call.records = <<1, 1>>
    /\ seg_result.rejected = <<1>>
    /\ SegmentRecords(segment) = <<258, 1>>

----------------------------------------------------------------------------
\* The live records of the Hadron: the newest items given to it, as many as
\* it can hold.
HadronLive == Suffix(h_appended, h_capacity)

(* C21: in every reachable state of a Hadron 0 <= length <= capacity and    *)
(* 0 <= next < capacity; while length < capacity, next = length and the     *)
(* live records occupy the cells [0, length); once length = capacity the    *)
(* live records, oldest first, occupy [next, capacity) followed by          *)
(* [0, next); capacity never changes after construction.                    *)
C21_HadronInvariants ==
    /\ [](/\ 0 <= h_length /\ h_length <= h_capacity
          /\ 0 <= h_next /\ h_next < h_capacity
          /\ Len(h_memory) = h_capacity
          /\ h_length < h_capacity =>
                /\ h_next = h_length
                /\ SubSeq(h_memory, 1, h_length) = HadronLive
          /\ h_length = h_capacity =>
                SubSeq(h_memory, h_next + 1, h_capacity)
                    \o SubSeq(h_memory, 1, h_next) = HadronLive)
    /\ [][h_capacity' = h_capacity]_vars

C21_Witness ==
    /\ h_capacity = 3
    /\ h_length = 3
    /\ h_next = 1
    /\ h_memory = <<2, 1, 1>>
    /\ HadronLive = <<1, 1, 2>>

----------------------------------------------------------------------------
----------------------------------------------------------------------------
(* C23: after any sequence of appends whose batches are strictly ascending, *)
(* the records of all slabs of the map, concatenated in ascending key       *)
(* order, are strictly ascending in sequence number and all greater than    *)
(* the smallest key of the map.                                             *)
C23_LiveRecordsAscend ==
    /\ IsAscending(Live)
    /\ \A i \in 1..Len(Live) : Live[i] > FirstKey(slots)

C23_Witness ==
    /\ Recycled
    /\ FirstKey(slots) > 1
    /\ Cardinality(DOMAIN slots) >= 2
    /\ Len(Live) >= 3
    /\ Live[1] = FirstKey(slots) + 1

----------------------------------------------------------------------------
(* C24: after any sequence of appends whose batches are strictly ascending, *)
(* the slabs of the map and the slabs of the free pool are together as many *)
(* as the configured slots: opening a slab neither loses, duplicates nor    *)
(* creates one.                                                             *)
C24_SlabsConserved ==
    Cardinality(DOMAIN slots) + Len(free_slots) = config.slots

C24_Witness ==
    /\ Recycled
    /\ config.slots = 3
    /\ Cardinality(DOMAIN slots) = 3
    /\ call.op = "append"
    /\ result = <<"Ok">>

----------------------------------------------------------------------------
\* The records of the slab under the greatest key.
LastSlabRecords == slots[LastKey(slots)].records

(* C25: after every completed append call, prev_seq_no is the sequence      *)
(* number of the last record of the greatest-key slab, or the initial       *)
(* watermark when no record was ever appended; the greatest-key slab is     *)
(* empty only while no record has ever been appended.                       *)
C25_WatermarkIsLastRecord ==
    /\ LastSlabRecords # <<>> =>
          prev_seq_no = LastSlabRecords[Len(LastSlabRecords)]
    /\ LastSlabRecords = <<>> <=> prev_seq_no = config.prev_seq_no
    /\ LastSlabRecords = <<>> => Live = <<>>

C25_Witness ==
    /\ call.op = "append"
    /\ result = <<"Ok">>
    /\ Recycled
    /\ Len(LastSlabRecords) = 1
    /\ prev_seq_no = call.records[Len(call.records)]
    /\ prev_seq_no > LastKey(slots) + 1

----------------------------------------------------------------------------
\* The greatest key of the map below key k, or k when there is none.
KeyBefore(m, k) ==
    IF \E j \in DOMAIN m : j < k
    THEN CHOOSE j \in DOMAIN m : j < k /\ \A i \in DOMAIN m : i < k => i <= j
    ELSE k

(* C26: under valid appends every slab is registered under the sequence     *)
(* number of the last record accepted before it was opened: each record of  *)
(* a slab is greater than the slab's key, a slab's key is the last record   *)
(* of the slab before it, and the key under which a slab is opened is       *)
(* greater than every key in the map at that time, so that the insert       *)
(* replaces no entry, also when the active slab was full when the call      *)
(* began.                                                                   *)
C26_SlabKeyIsPriorWatermark ==
    /\ [](\A k \in DOMAIN slots :
            /\ \A i \in 1..Len(slots[k].records) : slots[k].records[i] > k
            /\ KeyBefore(slots, k) # k =>
                  /\ slots[KeyBefore(slots, k)].records # <<>>
                  /\ k = slots[KeyBefore(slots, k)].records[
                             Len(slots[KeyBefore(slots, k)].records)])
    /\ [][call'.op = "append" =>
            \A i \in 1..Len(RingAppendTaken(Ring, call'.records)) :
                \A k \in DOMAIN RingAppendTaken(Ring, call'.records)[i].slots :
                    RingAppendTaken(Ring, call'.records)[i].prev_seq_no > k]_vars

\* A slab opened by a call that found the active slab full: the newest slab
\* holds the batch and nothing else.
C26_Witness ==
    /\ call.op = "append"
    /\ result = <<"Ok">>
    /\ Recycled
    /\ LastKey(slots) > config.prev_seq_no
    /\ call.records # <<>>
    /\ LastSlabRecords = call.records

----------------------------------------------------------------------------
\* An append of a batch that passed the validation of its first record and
\* is not strictly ascending inside.
UnorderedBatchAccepted == PassedValidation /\ ~IsAscending(call.records)

(* C27: append validates only the first record against prev_seq_no: a batch *)
(* whose first record is greater than prev_seq_no and whose later records   *)
(* are not strictly ascending is accepted with Ok, and all its records are  *)
(* stored in arrival order; a batch no longer than the slabs a ring always  *)
(* keeps is then the newest part of the stored records.                     *)
C27_UnorderedBatchStored ==
    UnorderedBatchAccepted =>
        /\ result = <<"Ok">>
        /\ Len(call.records) <= (config.slots - 1) * config.slot_capacity =>
              Suffix(Live, Len(call.records)) = call.records

----------------------------------------------------------------------------
\* The greatest of a non-empty set of numbers.
Max(S) == CHOOSE x \in S : \A y \in S : y <= x

\* prev_seq_no is the greatest sequence number appended so far: the greatest
\* of the initial watermark and the stored records, and the greatest record
\* of the batch after an append that was accepted.
WatermarkIsGreatestAppended ==
    /\ prev_seq_no = Max(Range(Live) \cup {config.prev_seq_no})
    /\ (call.op = "append" /\ call.records # <<>> /\ result = <<"Ok">>) =>
           prev_seq_no = Max(Range(call.records))

----------------------------------------------------------------------------
(* C29: append_from_slice first drops the leading items.len() - capacity    *)
(* items of a batch longer than capacity, then, items being what is left,   *)
(* next becomes (next + items.len()) mod capacity and length becomes        *)
(* min(length + items.len(), capacity), and the ring ends with items; an    *)
(* append of at least capacity items leaves next as it was and length at    *)
(* capacity.                                                                *)
C29_AppendMovesNextAndLength ==
    [][LET n == Len(h_call')
           items == IF n > h_capacity
                    THEN DropFirst(h_call', n - h_capacity)
                    ELSE h_call'
       IN /\ h_next' = (h_next + Len(items)) % h_capacity
          /\ h_length' = Min(h_length + Len(items), h_capacity)
          /\ n >= h_capacity => h_next' = h_next /\ h_length' = h_capacity
          /\ Suffix(HadronIter(Hadron'), Len(items)) = items]_vars

C29_Witness ==
    /\ h_capacity = 3
    /\ Len(h_call) = 4
    /\ Len(h_appended) = 5
    /\ h_next = 1
    /\ h_length = 3
    /\ HadronIter(Hadron) = DropFirst(h_call, 1)

----------------------------------------------------------------------------
\* The slabs of the map under keys greater than k.
SlabsAfter(k) == [j \in {i \in DOMAIN slots : i > k} |-> slots[j]]

----------------------------------------------------------------------------
\* What a caller observes of a slab: length, remaining and records.
SlabView(s) ==
    <<StorageLength(s), StorageRemaining(s), StorageRecords(s)>>

\* What a caller observes of a ring and its buffer: the result of the last
\* call, the records of the buffer, and the watermark and the records a
\* later call would work on.
RingView(kind) ==
    <<be_result[kind], BufRecords(be_buf[kind]), be_ring[kind].prev_seq_no,
      LiveOf(be_ring[kind].slots)>>

(* C31: the three backends are interchangeable: the same extend, trim and   *)
(* clear calls within the preconditions leave the same length, remaining    *)
(* and records in a VecStorage, an on-heap and an off-heap MemStorage, and  *)
(* SeqRings built on them return the same append and query results for the *)
(* same calls.                                                              *)
C31_BackendsInterchangeable ==
    \A kind \in Backends :
        /\ SlabView(be_storage[kind]) = SlabView(be_storage["Vec"])
        /\ RingView(kind) = RingView("Vec")

\* A query on rings that recycled a slab, in a run whose on-heap memory
\* began with other bytes than the off-heap memory.
C31_Witness ==
    /\ be_call.op = "query_after"
    /\ be_call.seq_no > 0
    /\ Len(BufRecords(be_buf["OnHeap"])) >= 2
    /\ be_ring["OnHeap"].free_slots = <<>>
    /\ 0 \notin DOMAIN be_ring["OnHeap"].slots
    /\ be_storage["OnHeap"].mem # be_storage["OffHeap"].mem

----------------------------------------------------------------------------
(* C32: the Ring over a mmap behaves like a bounded vector under any        *)
(* sequence of clear, trim(n), push and extend_from_slice: clear empties    *)
(* it; trim(n) removes the first min(n, len) records; push appends when     *)
(* there is room and returns false without change when full;                *)
(* extend_from_slice appends the prefix that fits and returns the rest;     *)
(* len is the number of records and never exceeds the capacity.             *)
C32_MmapRingIsBoundedVector ==
    [][LET before == MmapRingRecords(mr)
           after == MmapRingRecords(mr')
           room == mr.cap - Len(before)
       IN /\ mr'.cap = mr.cap
          /\ mr'.len = Len(after)
          /\ Len(after) <= mr.cap
          /\ mr_call'.op = "clear" => after = <<>>
          /\ mr_call'.op = "trim" =>
                after = DropFirst(before, Min(mr_call'.len, Len(before)))
          /\ mr_call'.op = "push" =>
                IF room > 0
                THEN after = before \o mr_call'.records /\ mr_result'.accepted
                ELSE after = before /\ ~mr_result'.accepted
          /\ mr_call'.op = "extend_from_slice" =>
                /\ after = before \o Prefix(mr_call'.records, room)
                /\ mr_result'.rejected = DropFirst(mr_call'.records, room)]_vars

\* A trim in the middle of a ring that was full, after which the records
\* left are those that came last.
C32_Witness ==
    /\ mr.cap = 3
    /\ mr_call.op = "trim"
    /\ mr_call.len = 1
    /\ MmapRingRecords(mr) = <<258, 1>>
    /\ mr.memory # ToBytesSlice(<<258, 1, 0>>)

----------------------------------------------------------------------------
\* The per-item reference ring given every item the Hadron was given.
RefHadron == RefHadronAppend(RefHadronNew(h_capacity), h_appended)

(* C33: query_from_trim(buf) of the experimental Hadron clears buf and      *)
(* fills it with the first min(buf.capacity, length) live items in append   *)
(* order, head first and then tail, never beyond buf's capacity, and        *)
(* agrees with the per-item reference ring after any appended batches.      *)
C33_ExperimentQueryFromTrim ==
    x_op = "query_from_trim" =>
        /\ Len(x_buf.records) = Min(x_buf.capacity, h_length)
        /\ Len(x_buf.records) <= x_buf.capacity
        /\ x_buf.records = Prefix(HadronLive, x_buf.capacity)
        /\ x_buf.records =
              Prefix(ItemSlices(Hadron)[1] \o ItemSlices(Hadron)[2],
                     x_buf.capacity)
        /\ x_buf = RefHadronQueryFromTrim(RefHadron, x_buf)

\* A query on a ring that wrapped around, into a Vec smaller than the ring,
\* that took all of the head and a part of the tail.
C33_Witness ==
    /\ x_op = "query_from_trim"
    /\ h_capacity = 3
    /\ h_length = 3
    /\ h_next = 2
    /\ x_buf.capacity = 2
    /\ x_buf.records = <<1, 2>>
    /\ h_memory = <<2, 1, 1>>

----------------------------------------------------------------------------
\* append_from_slice called once for every item of the batch.
RECURSIVE HadronAppendSingly(_, _)
HadronAppendSingly(h, items) ==
    IF items = <<>> THEN h
    ELSE HadronAppendSingly(HadronAppend(h, <<items[1]>>), Tail(items))

\* The two halves a caller may split a batch into.
HalfBatches == UNION {[1..n -> Items] : n \in 0..MaxHalfBatch}

(* C34: bulk append is the same as item-by-item append for a reader: from   *)
(* any state and for any batches a and b, appending a ++ b in one call,     *)
(* appending a and then b, and appending every item singly, the oldest      *)
(* item evicted when the ring is full, give the same iter() sequence.       *)
C34_BulkAppendIsItemwise ==
    \A a, b \in HalfBatches :
        LET bulk == HadronIter(HadronAppend(Hadron, a \o b))
        IN /\ HadronIter(HadronAppend(HadronAppend(Hadron, a), b)) = bulk
           /\ HadronIter(HadronAppendSingly(Hadron, a \o b)) = bulk
           /\ RefHadronAppend([capacity |-> h_capacity,
                               deque |-> HadronIter(Hadron)],
                              a \o b).deque = bulk

\* A full ring that wrapped around, from which a bulk append and the same
\* items appended singly end with different next and different memory.
C34_Witness ==
    /\ h_capacity = 3
    /\ h_length = 3
    /\ h_next = 1
    /\ \E a, b \in HalfBatches :
          /\ Len(a) = 2 /\ Len(b) = 2
          /\ HadronAppend(Hadron, a \o b).next
                # HadronAppendSingly(Hadron, a \o b).next
          /\ HadronAppend(Hadron, a \o b).memory
                # HadronAppendSingly(Hadron, a \o b).memory
          /\ HadronIter(HadronAppend(Hadron, a \o b))
                = HadronIter(HadronAppendSingly(Hadron, a \o b))

----------------------------------------------------------------------------
(* C35: after any sequence of valid appends every slab of the map but the   *)
(* greatest-key one holds exactly slot_capacity records; once the free pool *)
(* is empty the live records number between (slots - 1) * slot_capacity + 1 *)
(* and slots * slot_capacity; and as long as no slab was recycled the live  *)
(* records are all the records appended.                                    *)
C35_SlabsButLastAreFull ==
    /\ [](/\ \A k \in DOMAIN slots :
                k # LastKey(slots) =>
                    Len(StorageRecords(slots[k])) = config.slot_capacity
          /\ free_slots = <<>> =>
                /\ Len(Live) >= (config.slots - 1) * config.slot_capacity + 1
                /\ Len(Live) <= config.slots * config.slot_capacity)
    /\ [][(/\ call'.op = "append"
           /\ result' = <<"Ok">>
           /\ config.prev_seq_no \in DOMAIN slots') =>
              Live' = Live \o call'.records]_vars

\* A ring of three slabs that recycled one and holds the fewest records it
\* can from then on.
C35_Witness ==
    /\ Recycled
    /\ config.slots = 3
    /\ Len(Live) = (config.slots - 1) * config.slot_capacity + 1
    /\ call.op = "append"
    /\ result = <<"Ok">>

\* C36: the live records are a contiguous suffix of the stream of accepted
\* records.  Stated as the step every call takes: an accepted append leaves a
\* suffix of (live records before \o batch) that ends with the newest record
\* of the stream, and a rejected append or a query leaves every slab, and
\* so the live records, as they were; the live records of a new ring are the
\* empty suffix of the empty stream, so in every run they are a suffix of all
\* that was accepted, with nothing duplicated, reordered or missing inside it.
C36_LiveIsSuffixOfAccepted ==
    [][IF call'.op = "append" /\ result' = <<"Ok">>
       THEN LET stream == Live \o call'.records
            IN /\ Len(Live') <= Len(stream)
               /\ Live' = Suffix(stream, Len(Live'))
               /\ stream # <<>> => /\ Live' # <<>>
                                    /\ Live'[Len(Live')] = stream[Len(stream)]
       ELSE slots' = slots]_vars

C36_Witness ==
    /\ Recycled
    /\ call.op = "append"
    /\ result = <<"Ok">>
    /\ Len(call.records) >= 2
    /\ Len(Live) >= 2
    /\ Live[1] > config.prev_seq_no + 2
    /\ Suffix(Live, 2) = Suffix(call.records, 2)


\* The accepted records above the consumer's first cursor that its cursor
\* has passed and that it was never given.
Missed ==
    {r \in Range(c_accepted) :
        r > c_initial /\ r <= c_cursor /\ r \notin Range(c_received)}

\* The last page the consumer was given.
Page == BufRecords(buf)

\* C37: a consumer that pages with query_after from its cursor, between the
\* appends of a writer, is given accepted records above its first cursor in
\* ascending order and so none twice; a record it missed is no longer live;
\* each page is the live records above the cursor, as many as the buffer
\* holds, so a record is stepped over only when it was evicted before the
\* page was read; a page with records moves the cursor up, never above the
\* watermark, and an empty page leaves it; and once a page is empty, until
\* the next append, every live record above the first cursor has been given
\* to the consumer exactly once.
C37_PagingConsumer ==
    /\ [](/\ IsAscending(c_received)
          /\ \A i \in DOMAIN c_received :
                /\ c_received[i] > c_initial
                /\ c_received[i] \in Range(c_accepted)
          /\ Missed \cap Range(Live) = {}
          /\ (call.op = "query_after" /\ Page = <<>>) =>
                /\ After(Live, c_cursor) = <<>>
                /\ After(Live, c_initial) =
                       SelectSeq(c_received, LAMBDA r : r \in Range(Live)))
    /\ [][call'.op = "query_after" =>
            /\ Page' = Prefix(After(Live, c_cursor), buf.capacity)
            /\ c_received' = c_received \o Page'
            /\ IF Page' = <<>> THEN c_cursor' = c_cursor
               ELSE c_cursor < c_cursor' /\ c_cursor' <= prev_seq_no]_vars

\* The consumer read in pages of one record, missed a record that a batch
\* evicted, was given two records and then an empty page; a record at or
\* below its first cursor was accepted too.
C37_Witness ==
    /\ call.op = "query_after"
    /\ Page = <<>>
    /\ buf.capacity = 1
    /\ Missed # {}
    /\ Len(c_received) >= 2
    /\ c_initial > 0
    /\ \E r \in Range(c_accepted) : r <= c_initial


\* C38: append_from_slice with an empty batch changes nothing.  In every
\* state of the ring (empty, partly filled, full, wrapped or not) the ring
\* after the call is the ring before it: capacity, next, length and every
\* cell of the memory, and so the items it yields; and every step that is a
\* call with an empty batch leaves next, length, the memory and the items
\* as they were.
C38_EmptyAppendChangesNothing ==
    /\ [](/\ HadronAppend(Hadron, <<>>) = Hadron
          /\ HadronIter(HadronAppend(Hadron, <<>>)) = HadronIter(Hadron))
    /\ [][h_call' = <<>> =>
            /\ UNCHANGED <<h_capacity, h_next, h_length, h_memory>>
            /\ HadronIter(Hadron') = HadronIter(Hadron)]_vars

\* An empty batch was appended to a full ring that had wrapped.
C38_Witness ==
    /\ h_call = <<>>
    /\ h_appended # <<>>
    /\ h_capacity = 3
    /\ h_length = h_capacity
    /\ h_next = 2
    /\ HadronIter(Hadron) = <<2, 1, 2>>


\* The calls of extend made by the call of the step.
Extends ==
    IF call'.op = "append" THEN AppendExtends(Ring, call'.records)
    ELSE IF call'.op = "query_from_trim" THEN QueryFromTrimExtends(Ring, buf)
    ELSE IF call'.op = "query_after"
    THEN QueryAfterExtends(Ring, call'.seq_no, buf)
    ELSE <<>>

\* The slices fit the target.
ExtendsFit(extends) ==
    \A i \in DOMAIN extends :
        Len(extends[i].records) <= extends[i].remaining

\* The slices hold a record.
ExtendsNonEmpty(extends) ==
    \A i \in DOMAIN extends : extends[i].records # <<>>

\* C39: every call the ring makes of QueryBuf::extend (from query_from_trim
\* and query_after) and of Storage::extend (from append) passes a slice that
\* holds a record and is no longer than what the target has remaining.
C39_ExtendInvariantsRespected ==
    [][ExtendsFit(Extends) /\ ExtendsNonEmpty(Extends)]_vars


====
